---- MODULE Spec2Model ----
(***************************************************************************)
(* Model of sendspin.audio.AudioPlayer: chunk ingress (submit), the audio  *)
(* callback (start gating, fast and slow emission paths), the clock        *)
(* mapping and the drift corrector.                                        *)
(*                                                                         *)
(* The AudioPlayer object is one record, `player`, whose fields carry the  *)
(* names of the Python attributes without the leading underscore.  Every   *)
(* method is an operator from a player record (and its arguments) to the   *)
(* player record it leaves behind; an action applies a whole method.       *)
(*                                                                         *)
(* Python integers are unbounded and TLC's are 32 bit, so the products     *)
(* x * sample_rate and frames * 1_000_000 are evaluated by MulDivFloor and *)
(* MulDivCeil, which return exactly floor(a*b/c) and ceil(a*b/c).          *)
(***************************************************************************)
EXTENDS Integers, Sequences, FiniteSets, TLC

\* ------------------------------------------------------------------------
\* Optional values (Python's None) and small arithmetic helpers
\* ------------------------------------------------------------------------

None == <<>>

Some(x) == <<x>>

Val(o) == o[1]

Min(a, b) == IF a <= b THEN a ELSE b

Max(a, b) == IF a >= b THEN a ELSE b

Abs(a) == IF a < 0 THEN -a ELSE a

RECURSIVE GCD(_, _)
GCD(a, b) == IF b = 0 THEN a ELSE GCD(b, a % b)

\* floor(a * b / c) for a >= 0, b > 0, c > 0 (Python: (a * b) // c)
MulDivFloor(a, b, c) ==
    LET g  == GCD(b, c)
        b1 == b \div g
        c1 == c \div g
    IN  (a \div c1) * b1 + (((a % c1) * b1) \div c1)

\* ceil(a * b / c) for a >= 0, b > 0, c > 0 (Python: (a * b + c - 1) // c)
MulDivCeil(a, b, c) ==
    LET g  == GCD(b, c)
        b1 == b \div g
        c1 == c \div g
    IN  MulDivFloor(a, b, c) + (IF ((a % c1) * b1) % c1 = 0 THEN 0 ELSE 1)

\* ------------------------------------------------------------------------
\* Program constants (class attributes of AudioPlayer)
\* ------------------------------------------------------------------------

MICROSECONDS_PER_SECOND == 1000000

CORRECTION_DEADBAND_US == 2000

REANCHOR_THRESHOLD_US == 500000

REANCHOR_COOLDOWN_US == 5000000

EARLY_START_THRESHOLD_US == 700000

START_TIME_UPDATE_THRESHOLD_US == 5000

\* _MAX_SPEED_CORRECTION = 0.04 = 1 / 25
MAX_SPEED_CORRECTION_INV == 25

\* _CORRECTION_TARGET_SECONDS = 2.0
CORRECTION_TARGET_SECONDS == 2

\* _DAC_PER_LOOP_MIN = 0.999 and _DAC_PER_LOOP_MAX = 1.001, in thousandths
DAC_PER_LOOP_MIN_MILLI == 999

DAC_PER_LOOP_MAX_MILLI == 1001

\* maxlen of the _dac_loop_calibrations deque
CALIBRATIONS_MAXLEN == 100

\* bytes per sample of 16-bit PCM
BYTES_PER_SAMPLE == 2

\* ------------------------------------------------------------------------
\* PCM data
\*
\* A bytes object is [id, off, len]: the len bytes starting at byte off of
\* the payload handed to the id-th submit call; id 0 is b"\x00" * len.
\* A single byte is <<id, index>>; the zero byte is <<0, 0>>.
\* ------------------------------------------------------------------------

ZeroByte == <<0, 0>>

Zeros(n) == [i \in 1..n |-> ZeroByte]

SilenceBytes(n) == [id |-> 0, off |-> 0, len |-> n]

PayloadBytes(id, n) == [id |-> id, off |-> 0, len |-> n]

\* data[a : a + n] as a sequence of bytes
ByteSeq(data, a, n) ==
    [i \in 1..n |-> IF data.id = 0 THEN ZeroByte ELSE <<data.id, data.off + a + i - 1>>]

\* _QueuedChunk
QueuedChunk(ts, data) == [server_timestamp_us |-> ts, audio_data |-> data]

\* PCMFormat: 16-bit samples, frame_size = channels * 2
PCMFormat(rate, channels) ==
    [sample_rate |-> rate, channels |-> channels, frame_size |-> channels * BYTES_PER_SAMPLE]


\* ------------------------------------------------------------------------
\* The AudioPlayer object
\* ------------------------------------------------------------------------

INITIALIZING == "INITIALIZING"

WAITING_FOR_START == "WAITING_FOR_START"

PLAYING == "PLAYING"

REANCHORING == "REANCHORING"

\* AudioPlayer.__init__
NewPlayer ==
    [ format                          |-> None,
      queue                           |-> <<>>,
      stream                          |-> None,
      closed                          |-> FALSE,
      stream_started                  |-> FALSE,
      first_real_chunk                |-> TRUE,
      volume                          |-> 100,
      muted                           |-> FALSE,
      current_chunk                   |-> None,
      current_chunk_offset            |-> 0,
      expected_next_timestamp         |-> None,
      queued_duration_us              |-> 0,
      dac_loop_calibrations           |-> <<>>,
      last_known_playback_position_us |-> 0,
      last_dac_calibration_time_us    |-> 0,
      playback_state                  |-> INITIALIZING,
      scheduled_start_loop_time_us    |-> None,
      scheduled_start_dac_time_us     |-> None,
      server_ts_cursor_us             |-> 0,
      server_ts_cursor_remainder      |-> 0,
      first_server_timestamp_us       |-> None,
      early_start_suspect             |-> FALSE,
      has_reanchored                  |-> FALSE,
      insert_every_n_frames           |-> 0,
      drop_every_n_frames             |-> 0,
      frames_until_next_insert        |-> 0,
      frames_until_next_drop          |-> 0,
      last_output_frame               |-> <<>>,
      sync_error_filtered_us          |-> 0,
      last_reanchor_loop_time_us      |-> 0,
      clear_requested                 |-> FALSE ]

\* a clear that leaves the source read cursor where it was
clear_keeping_cursor(p) ==
    [p EXCEPT
      !.clear_requested                 = FALSE,
      !.queue                           = <<>>,
      !.playback_state                  = INITIALIZING,
      !.first_real_chunk                = TRUE,
      !.current_chunk                   = None,
      !.current_chunk_offset            = 0,
      !.expected_next_timestamp         = None,
      !.queued_duration_us              = 0,
      !.dac_loop_calibrations           = <<>>,
      !.last_known_playback_position_us = 0,
      !.last_dac_calibration_time_us    = 0,
      !.scheduled_start_loop_time_us    = None,
      !.scheduled_start_dac_time_us     = None,
      !.first_server_timestamp_us       = None,
      !.early_start_suspect             = FALSE,
      !.has_reanchored                  = FALSE,
      !.insert_every_n_frames           = 0,
      !.drop_every_n_frames             = 0,
      !.frames_until_next_insert        = 0,
      !.frames_until_next_drop          = 0,
      !.last_output_frame               = <<>>,
      !.sync_error_filtered_us          = 0,
      !.last_reanchor_loop_time_us      = 0 ]

\* AudioPlayer.clear
clear(p) ==
    [p EXCEPT
      !.clear_requested                 = FALSE,
      !.queue                           = <<>>,
      !.playback_state                  = INITIALIZING,
      !.first_real_chunk                = TRUE,
      !.current_chunk                   = None,
      !.current_chunk_offset            = 0,
      !.expected_next_timestamp         = None,
      !.queued_duration_us              = 0,
      !.dac_loop_calibrations           = <<>>,
      !.last_known_playback_position_us = 0,
      !.last_dac_calibration_time_us    = 0,
      !.scheduled_start_loop_time_us    = None,
      !.scheduled_start_dac_time_us     = None,
      !.server_ts_cursor_us             = 0,
      !.server_ts_cursor_remainder      = 0,
      !.first_server_timestamp_us       = None,
      !.early_start_suspect             = FALSE,
      !.has_reanchored                  = FALSE,
      !.insert_every_n_frames           = 0,
      !.drop_every_n_frames             = 0,
      !.frames_until_next_insert        = 0,
      !.frames_until_next_drop          = 0,
      !.last_output_frame               = <<>>,
      !.sync_error_filtered_us          = 0,
      !.last_reanchor_loop_time_us      = 0 ]

\* The time-sync collaborator: compute_client_time and compute_server_time are
\* the translation by the current clock offset and its inverse.
compute_client_time(server_us, offset) == server_us + offset

compute_server_time(loop_us, offset) == loop_us - offset

\* ------------------------------------------------------------------------
\* Reading the queue (audio thread)
\* ------------------------------------------------------------------------

\* the cursor advanced by whole microseconds, the rest of the division lost
advance_server_cursor_frames_losing_remainder(p, frames) ==
    IF p.format = None \/ frames <= 0 THEN p
    ELSE [p EXCEPT !.server_ts_cursor_remainder = 0,
                   !.server_ts_cursor_us =
                       @ + MulDivFloor(frames, MICROSECONDS_PER_SECOND,
                                       Val(p.format).sample_rate)]

\* AudioPlayer._advance_server_cursor_frames: remainder += frames * 1_000_000,
\* then carry whole microseconds; frames * 1_000_000 is split as
\* frames * (q * sr + r) so that no product leaves 32 bits.
advance_server_cursor_frames(p, frames) ==
    IF p.format = None \/ frames <= 0 THEN p
    ELSE LET sr    == Val(p.format).sample_rate
             q     == MICROSECONDS_PER_SECOND \div sr
             r     == MICROSECONDS_PER_SECOND % sr
             low   == p.server_ts_cursor_remainder + frames * r
             total_ge_sr == frames * q > 0 \/ low >= sr
         IN  IF total_ge_sr
             THEN [p EXCEPT !.server_ts_cursor_remainder = low % sr,
                            !.server_ts_cursor_us = @ + frames * q + (low \div sr)]
             ELSE [p EXCEPT !.server_ts_cursor_remainder = low]

\* AudioPlayer._advance_finished_chunk
advance_finished_chunk(p) ==
    IF p.current_chunk = None THEN p
    ELSE LET data              == Val(p.current_chunk).audio_data
             chunk_frames      == data.len \div Val(p.format).frame_size
             chunk_duration_us == MulDivFloor(chunk_frames, MICROSECONDS_PER_SECOND,
                                              Val(p.format).sample_rate)
         IN  [p EXCEPT !.queued_duration_us   = Max(0, @ - chunk_duration_us),
                       !.current_chunk        = None,
                       !.current_chunk_offset = 0]

\* AudioPlayer._initialize_current_chunk (queue.get_nowait on a non-empty queue)
initialize_current_chunk(p) ==
    [p EXCEPT !.current_chunk        = Some(Head(p.queue)),
              !.queue                = Tail(@),
              !.current_chunk_offset = 0,
              !.server_ts_cursor_us  =
                  IF @ = 0 THEN Head(p.queue).server_timestamp_us ELSE @]

\* "if self._current_chunk is None: ... self._initialize_current_chunk()"
\* with data at hand
ensure_current_chunk(p) ==
    IF p.current_chunk = None THEN initialize_current_chunk(p) ELSE p

\* "if self._current_chunk_offset >= len(data): self._advance_finished_chunk()"
finish_consumed_chunk(p) ==
    IF p.current_chunk_offset >= Val(p.current_chunk).audio_data.len
    THEN advance_finished_chunk(p) ELSE p

RECURSIVE read_bulk_loop(_, _, _)

\* an iteration that copies from the start of the current chunk whatever has
\* been read of it
read_bulk_copy_from_chunk_start(p, data, total_bytes_needed, bytes_to_read) ==
    read_bulk_loop(
        finish_consumed_chunk(advance_server_cursor_frames(
            [p EXCEPT !.current_chunk_offset = @ + bytes_to_read],
            bytes_to_read \div Val(p.format).frame_size)),
        data \o ByteSeq(Val(p.current_chunk).audio_data, 0, bytes_to_read),
        total_bytes_needed)

\* one iteration of the loop, copying bytes_to_read bytes of the current chunk
read_bulk_copy(p, data, total_bytes_needed, bytes_to_read) ==
    read_bulk_loop(
        finish_consumed_chunk(advance_server_cursor_frames(
            [p EXCEPT !.current_chunk_offset = @ + bytes_to_read],
            bytes_to_read \div Val(p.format).frame_size)),
        data \o ByteSeq(Val(p.current_chunk).audio_data, p.current_chunk_offset,
                        bytes_to_read),
        total_bytes_needed)

\* The while loop of _read_input_frames_bulk; data is result[:bytes_written]
read_bulk_loop(p, data, total_bytes_needed) ==
    IF Len(data) >= total_bytes_needed THEN [p |-> p, data |-> data]
    ELSE IF p.current_chunk = None /\ p.queue = <<>> THEN [p |-> p, data |-> data]
    ELSE read_bulk_copy(
             ensure_current_chunk(p), data, total_bytes_needed,
             Min(Val(ensure_current_chunk(p).current_chunk).audio_data.len
                     - ensure_current_chunk(p).current_chunk_offset,
                 total_bytes_needed - Len(data)))

\* the end of _read_input_frames_bulk: r is what the loop read
read_bulk_result(r, total_bytes_needed, frame_size) ==
    [p      |-> IF Len(r.data) >= frame_size
                THEN [r.p EXCEPT !.last_output_frame =
                          SubSeq(r.data, Len(r.data) - frame_size + 1, Len(r.data))]
                ELSE r.p,
     result |-> r.data \o Zeros(total_bytes_needed - Len(r.data))]

\* AudioPlayer._read_input_frames_bulk: [p, result]; result always has
\* n_frames * frame_size bytes, padded with zeros when the queue runs dry
read_input_frames_bulk(p, n_frames) ==
    IF p.format = None \/ n_frames <= 0 THEN [p |-> p, result |-> <<>>]
    ELSE read_bulk_result(
             read_bulk_loop(p, <<>>, n_frames * Val(p.format).frame_size),
             n_frames * Val(p.format).frame_size, Val(p.format).frame_size)

\* _read_one_input_frame with a current chunk: the frame data[start:end]
read_one_frame_at(p, start, end) ==
    [p     |-> finish_consumed_chunk(advance_server_cursor_frames(
                   [p EXCEPT !.current_chunk_offset = end], 1)),
     frame |-> Some(ByteSeq(Val(p.current_chunk).audio_data, start, end - start)
                    \o Zeros(Val(p.format).frame_size - (end - start)))]

\* _read_one_input_frame with a current chunk
read_one_from_chunk(p) ==
    IF p.current_chunk_offset >= Val(p.current_chunk).audio_data.len
    THEN [p |-> advance_finished_chunk(p), frame |-> None]
    ELSE read_one_frame_at(p, p.current_chunk_offset,
                           Min(p.current_chunk_offset + Val(p.format).frame_size,
                               Val(p.current_chunk).audio_data.len))

\* AudioPlayer._read_one_input_frame: [p, frame], frame = None when no data
read_one_input_frame(p) ==
    IF p.format = None THEN [p |-> p, frame |-> None]
    ELSE IF p.current_chunk = None /\ p.queue = <<>> THEN [p |-> p, frame |-> None]
    ELSE read_one_from_chunk(ensure_current_chunk(p))

RECURSIVE skip_input_frames(_, _)

\* _skip_input_frames: take frames of the current chunk
skip_take(p, frames_to_skip, take) ==
    skip_input_frames(
        finish_consumed_chunk(advance_server_cursor_frames(
            [p EXCEPT !.current_chunk_offset = @ + take * Val(p.format).frame_size],
            take)),
        frames_to_skip - take)

\* _skip_input_frames with a current chunk of rem_frames unread frames
skip_from_chunk(p, frames_to_skip, rem_frames) ==
    IF rem_frames <= 0
    THEN skip_input_frames(advance_finished_chunk(p), frames_to_skip)
    ELSE skip_take(p, frames_to_skip, Min(rem_frames, frames_to_skip))

\* AudioPlayer._skip_input_frames
skip_input_frames(p, frames_to_skip) ==
    IF p.format = None \/ frames_to_skip <= 0 THEN p
    ELSE IF p.current_chunk = None /\ p.queue = <<>> THEN p
    ELSE skip_from_chunk(
             ensure_current_chunk(p), frames_to_skip,
             (Val(ensure_current_chunk(p).current_chunk).audio_data.len
                  - ensure_current_chunk(p).current_chunk_offset)
                 \div Val(p.format).frame_size)

\* ------------------------------------------------------------------------
\* Clock mapping
\* ------------------------------------------------------------------------

\* max(0.999, min(1.001, num / den)) as a fraction <<n, d>> with d > 0
\* (den # 0).  num/den < 0.999 iff den - num > den / 1000, and
\* num/den > 1.001 iff num - den > den / 1000.
ClampSlope(num, den) ==
    LET n1 == IF den < 0 THEN -num ELSE num
        d1 == IF den < 0 THEN -den ELSE den
    IN  IF d1 - n1 > (d1 * (1000 - DAC_PER_LOOP_MIN_MILLI)) \div 1000
        THEN <<DAC_PER_LOOP_MIN_MILLI, 1000>>
        ELSE IF n1 - d1 > (d1 * (DAC_PER_LOOP_MAX_MILLI - 1000)) \div 1000
        THEN <<DAC_PER_LOOP_MAX_MILLI, 1000>>
        ELSE <<n1 \div GCD(n1, d1), d1 \div GCD(n1, d1)>>

\* round(base + x * slope), slope = <<n, d>>
RoundAffine(base, x, slope) ==
    LET n    == slope[1]
        d    == slope[2]
        low  == (x % d) * n
        f    == base + (x \div d) * n + (low \div d)
        r    == low % d
    IN  IF 2 * r < d THEN f
        ELSE IF 2 * r > d THEN f + 1
        ELSE IF f % 2 = 0 THEN f ELSE f + 1

\* the last two calibration pairs: <<ref, prev>>, prev = <<0, 0>> if absent
LastCalibrations(p) ==
    LET c == p.dac_loop_calibrations
    IN  <<c[Len(c)], IF Len(c) >= 2 THEN c[Len(c) - 1] ELSE <<0, 0>> >>

\* an estimate that needs two calibration pairs
estimate_dac_time_needing_two_pairs(p, server_timestamp_us, offset) ==
    IF p.last_dac_calibration_time_us = 0 THEN 0
    ELSE IF Len(p.dac_loop_calibrations) < 2 THEN 0
    ELSE LET loop_time_us == compute_client_time(server_timestamp_us, offset)
             dac_ref_us   == LastCalibrations(p)[1][1]
             loop_ref_us  == LastCalibrations(p)[1][2]
             dac_prev_us  == LastCalibrations(p)[2][1]
             loop_prev_us == LastCalibrations(p)[2][2]
             dac_per_loop == IF loop_prev_us # 0 /\ dac_prev_us # 0
                                /\ loop_ref_us # loop_prev_us
                             THEN ClampSlope(dac_ref_us - dac_prev_us,
                                             loop_ref_us - loop_prev_us)
                             ELSE <<1, 1>>
         IN  IF loop_ref_us = 0 THEN 0
             ELSE RoundAffine(dac_ref_us, loop_time_us - loop_ref_us, dac_per_loop)

\* AudioPlayer._estimate_dac_time_for_server_timestamp
estimate_dac_time_for_server_timestamp(p, server_timestamp_us, offset) ==
    IF p.last_dac_calibration_time_us = 0 THEN 0
    ELSE IF p.dac_loop_calibrations = <<>> THEN 0
    ELSE LET loop_time_us == compute_client_time(server_timestamp_us, offset)
             dac_ref_us   == LastCalibrations(p)[1][1]
             loop_ref_us  == LastCalibrations(p)[1][2]
             dac_prev_us  == LastCalibrations(p)[2][1]
             loop_prev_us == LastCalibrations(p)[2][2]
             dac_per_loop == IF loop_prev_us # 0 /\ dac_prev_us # 0
                                /\ loop_ref_us # loop_prev_us
                             THEN ClampSlope(dac_ref_us - dac_prev_us,
                                             loop_ref_us - loop_prev_us)
                             ELSE <<1, 1>>
         IN  IF loop_ref_us = 0 THEN 0
             ELSE RoundAffine(dac_ref_us, loop_time_us - loop_ref_us, dac_per_loop)

\* AudioPlayer._estimate_loop_time_for_dac_time
estimate_loop_time_for_dac_time(p, dac_time_us) ==
    IF p.dac_loop_calibrations = <<>> THEN 0
    ELSE LET dac_ref_us   == LastCalibrations(p)[1][1]
             loop_ref_us  == LastCalibrations(p)[1][2]
             dac_prev_us  == LastCalibrations(p)[2][1]
             loop_prev_us == LastCalibrations(p)[2][2]
             loop_per_dac == IF dac_prev_us # 0 /\ dac_ref_us # dac_prev_us
                             THEN ClampSlope(loop_ref_us - loop_prev_us,
                                             dac_ref_us - dac_prev_us)
                             ELSE <<1, 1>>
         IN  IF loop_ref_us = 0 THEN 0
             ELSE RoundAffine(loop_ref_us, dac_time_us - dac_ref_us, loop_per_dac)

\* "if loop_at_dac_us == 0: loop_at_dac_us = loop_time_us"
loop_at_dac_us(estimated_us, loop_time_us) ==
    IF estimated_us = 0 THEN loop_time_us ELSE estimated_us

\* _update_playback_position_from_dac, "If we haven't set the DAC-anchored
\* start yet, approximate it now"
approximate_dac_start(p, offset) ==
    IF p.scheduled_start_dac_time_us = None
       /\ p.scheduled_start_loop_time_us # None
       /\ Val(p.scheduled_start_loop_time_us) # 0
    THEN LET est_dac == estimate_dac_time_for_server_timestamp(
                            p, compute_server_time(Val(p.scheduled_start_loop_time_us),
                                                   offset),
                            offset)
         IN  \* "est_dac if est_dac else None"
             [p EXCEPT !.scheduled_start_dac_time_us =
                           IF est_dac # 0 THEN Some(est_dac) ELSE None]
    ELSE p

\* _update_playback_position_from_dac, "Update playback position in server
\* time using latest calibration"
record_playback_position(p, dac_time_us, loop_time_us, offset) ==
    [p EXCEPT !.last_known_playback_position_us =
         compute_server_time(
             loop_at_dac_us(estimate_loop_time_for_dac_time(p, dac_time_us),
                            loop_time_us),
             offset)]

\* AudioPlayer._update_playback_position_from_dac
update_playback_position_from_dac(p, dac_time_us, loop_time_us, offset) ==
    approximate_dac_start(
        record_playback_position(
            [p EXCEPT !.dac_loop_calibrations =
                          \* deque(maxlen=100).append
                          IF Len(@) >= CALIBRATIONS_MAXLEN
                          THEN Append(Tail(@), <<dac_time_us, loop_time_us>>)
                          ELSE Append(@, <<dac_time_us, loop_time_us>>),
                      !.last_dac_calibration_time_us = loop_time_us],
            dac_time_us, loop_time_us, offset),
        offset)

\* ------------------------------------------------------------------------
\* Start gating
\* ------------------------------------------------------------------------

\* _handle_start_gating arming playback whether or not the start time has
\* been reached
handle_start_gating_arming_early(p, frames, dac_now_us, loop_now_us) ==
    LET use_dac_gating == p.scheduled_start_dac_time_us # None /\ dac_now_us > 0
        has_gate       == use_dac_gating \/ p.scheduled_start_loop_time_us # None
        target_time_us == IF use_dac_gating THEN Val(p.scheduled_start_dac_time_us)
                          ELSE Val(p.scheduled_start_loop_time_us)
        current_time_us == IF use_dac_gating THEN dac_now_us ELSE loop_now_us
    IN  IF ~has_gate THEN [p |-> p, bytes_written |-> 0, gate |-> None]
        ELSE [p |-> [p EXCEPT !.playback_state = PLAYING], bytes_written |-> 0,
              gate |-> Some(<<current_time_us, target_time_us>>)]

\* _handle_start_gating, the clock and the scheduled start it reads: the
\* locals use_dac_gating (can_drop_frames), current_time_us and target_time_us,
\* or has_gate = FALSE when no start is scheduled
handle_start_gating_reads(p, dac_now_us, loop_now_us) ==
    LET use_dac_gating == p.scheduled_start_dac_time_us # None /\ dac_now_us > 0
    IN  [has_gate        |-> use_dac_gating \/ p.scheduled_start_loop_time_us # None,
         can_drop_frames |-> use_dac_gating,
         target_time_us  |-> IF use_dac_gating THEN Val(p.scheduled_start_dac_time_us)
                             ELSE IF p.scheduled_start_loop_time_us # None
                             THEN Val(p.scheduled_start_loop_time_us) ELSE 0,
         current_time_us |-> IF use_dac_gating THEN dac_now_us ELSE loop_now_us]

\* _handle_start_gating without the arming at the scheduled time: only a
\* fast-forward starts playback
handle_start_gating_never_arming(p, frames, read) ==
    LET fmt            == Val(p.format)
        delta_us       == read.target_time_us - read.current_time_us
        frames_until_start == MulDivCeil(delta_us, fmt.sample_rate, MICROSECONDS_PER_SECOND)
        silence_bytes  == IF delta_us > 0
                          THEN Min(frames_until_start, frames) * fmt.frame_size ELSE 0
        frames_to_drop == MulDivCeil(-delta_us, fmt.sample_rate, MICROSECONDS_PER_SECOND)
        p1 == IF delta_us < 0 /\ read.can_drop_frames
                 /\ ~(p.early_start_suspect /\ ~p.has_reanchored)
              THEN [skip_input_frames(p, frames_to_drop) EXCEPT !.playback_state = PLAYING]
              ELSE p
        p2 == p1
    IN  IF ~read.has_gate THEN [p |-> p, bytes_written |-> 0, gate |-> None]
        ELSE [p |-> p2, bytes_written |-> silence_bytes,
              gate |-> Some(<<read.current_time_us, read.target_time_us>>)]

\* _handle_start_gating from "if delta_us > 0" on, with the locals it has read
handle_start_gating_from(p, frames, read) ==
    LET fmt            == Val(p.format)
        delta_us       == read.target_time_us - read.current_time_us
        frames_until_start == MulDivCeil(delta_us, fmt.sample_rate, MICROSECONDS_PER_SECOND)
        silence_bytes  == IF delta_us > 0
                          THEN Min(frames_until_start, frames) * fmt.frame_size ELSE 0
        frames_to_drop == MulDivCeil(-delta_us, fmt.sample_rate, MICROSECONDS_PER_SECOND)
        p1 == IF delta_us < 0 /\ read.can_drop_frames
                 /\ ~(p.early_start_suspect /\ ~p.has_reanchored)
              THEN [skip_input_frames(p, frames_to_drop) EXCEPT !.playback_state = PLAYING]
              ELSE p
        p2 == IF read.current_time_us >= read.target_time_us
              THEN [p1 EXCEPT !.playback_state = PLAYING] ELSE p1
    IN  IF ~read.has_gate THEN [p |-> p, bytes_written |-> 0, gate |-> None]
        ELSE [p |-> p2, bytes_written |-> silence_bytes,
              gate |-> Some(<<read.current_time_us, read.target_time_us>>)]

\* AudioPlayer._handle_start_gating with bytes_written = 0 on entry.
\* Result: the player, the number of silence bytes written, and the gate the
\* callback evaluated: gate = None, or <<current_time_us, target_time_us>>.
handle_start_gating(p, frames, dac_now_us, loop_now_us) ==
    handle_start_gating_from(p, frames, handle_start_gating_reads(p, dac_now_us, loop_now_us))

\* ------------------------------------------------------------------------
\* Double-precision arithmetic
\*
\* _update_correction_schedule computes the correction interval in Python
\* floats (IEEE 754 binary64, round to nearest, ties to even).  A natural
\* number of any size is the sequence of its base-1024 digits, least
\* significant first, without a leading zero digit; a positive double is
\* [m, e] with 2^52 <= m < 2^53, its value m * 2^e.
\* ------------------------------------------------------------------------

LIMB == 1024

RECURSIVE Pow2(_)
Pow2(n) == IF n = 0 THEN 1 ELSE 2 * Pow2(n - 1)

\* the number of binary digits of n
RECURSIVE Bits(_)
Bits(n) == IF n = 0 THEN 0 ELSE 1 + Bits(n \div 2)

RECURSIVE BigOf(_)
BigOf(n) == IF n = 0 THEN <<>> ELSE <<n % LIMB>> \o BigOf(n \div LIMB)

RECURSIVE BigTrim(_)
BigTrim(a) ==
    IF a # <<>> /\ a[Len(a)] = 0 THEN BigTrim(SubSeq(a, 1, Len(a) - 1)) ELSE a

BigBits(a) == IF a = <<>> THEN 0 ELSE 10 * (Len(a) - 1) + Bits(a[Len(a)])

\* a * m + carry for 0 < m <= 2^20
RECURSIVE BigMulAdd(_, _, _)
BigMulAdd(a, m, carry) ==
    IF a = <<>> THEN BigOf(carry)
    ELSE <<(Head(a) * m + carry) % LIMB>>
             \o BigMulAdd(Tail(a), m, (Head(a) * m + carry) \div LIMB)

BigMul(a, m) == BigMulAdd(a, m, 0)

\* a * 2^t
RECURSIVE BigShl(_, _)
BigShl(a, t) ==
    IF t = 0 \/ a = <<>> THEN a
    ELSE IF t >= 10 THEN <<0>> \o BigShl(a, t - 10)
    ELSE BigMul(a, Pow2(t))

\* a + b + carry
RECURSIVE BigAddCarry(_, _, _)
BigAddCarry(a, b, carry) ==
    IF a = <<>> /\ b = <<>> THEN BigOf(carry)
    ELSE LET digit_sum == (IF a = <<>> THEN 0 ELSE Head(a))
                          + (IF b = <<>> THEN 0 ELSE Head(b)) + carry
         IN  <<digit_sum % LIMB>>
                 \o BigAddCarry(IF a = <<>> THEN a ELSE Tail(a),
                                IF b = <<>> THEN b ELSE Tail(b),
                                digit_sum \div LIMB)

BigAdd(a, b) == BigAddCarry(a, b, 0)

\* a <= b
RECURSIVE BigLeq(_, _)
BigLeq(a, b) ==
    IF Len(a) # Len(b) THEN Len(a) < Len(b)
    ELSE IF a = <<>> THEN TRUE
    ELSE IF a[Len(a)] # b[Len(b)] THEN a[Len(a)] < b[Len(b)]
    ELSE BigLeq(SubSeq(a, 1, Len(a) - 1), SubSeq(b, 1, Len(b) - 1))

\* quotient (with leading zero digits) and remainder of a by 0 < d < 2^20
RECURSIVE BigDivMod(_, _)
BigDivMod(a, d) ==
    IF a = <<>> THEN [q |-> <<>>, r |-> 0]
    ELSE LET hi  == BigDivMod(Tail(a), d)
             cur == hi.r * LIMB + Head(a)
         IN  [q |-> <<cur \div d>> \o hi.q, r |-> cur % d]

\* q * 2^e rounded to a double, q having 53 to 73 binary digits; sticky says
\* that the exact value lies above q * 2^e by less than 2^e
FloatRoundShifted(dm, t, sticky, e) ==
    LET half == Pow2(t - 1)
        up   == \/ dm.r > half
                \/ dm.r = half /\ (sticky \/ Head(dm.q) % 2 = 1)
        m1   == IF up THEN BigAdd(BigTrim(dm.q), <<1>>) ELSE BigTrim(dm.q)
    IN  IF BigBits(m1) = 54
        THEN [m |-> BigTrim(BigDivMod(m1, 2).q), e |-> e + t + 1]
        ELSE [m |-> m1, e |-> e + t]

FloatRound(q, sticky, e) ==
    IF BigBits(q) = 53 THEN [m |-> q, e |-> e]
    ELSE FloatRoundShifted(BigDivMod(q, Pow2(BigBits(q) - 53)), BigBits(q) - 53,
                           sticky, e)

\* (a / d) * 2^e rounded to a double, for a > 0 and 0 < d < 2^20
FloatQuotientScaled(dm, e) == FloatRound(BigTrim(dm.q), dm.r # 0, e)

FloatQuotientBy(a, d, u, e) == FloatQuotientScaled(BigDivMod(BigShl(a, u), d), e - u)

FloatQuotient(a, d, e) ==
    FloatQuotientBy(a, d, Max(0, 54 + Bits(d) - BigBits(a)), e)

FloatMin(x, y) ==
    IF (IF y.e # x.e THEN y.e < x.e ELSE y.m # x.m /\ BigLeq(y.m, x.m)) THEN y ELSE x

BigDigit(a, i) == IF i <= Len(a) THEN a[i] ELSE 0

\* a \div 2^40 for a < 2^70
BigTop(a) == BigDigit(a, 5) + BigDigit(a, 6) * LIMB + BigDigit(a, 7) * LIMB * LIMB

\* s \div m for 2^52 <= m < 2^53 and s < 1024 * m, given an estimate that is
\* off by one at most
BigQuotientNear(estimate, m, s) ==
    IF BigLeq(BigTrim(BigMul(m, estimate + 1)), s) THEN estimate + 1
    ELSE IF estimate = 0 \/ BigLeq(BigTrim(BigMul(m, estimate)), s) THEN estimate
    ELSE estimate - 1

\* the quotient of the leading digits differs from s / m by less than 1
BigQuotient(m, s) == BigQuotientNear(BigTop(s) \div BigTop(m), m, s)

\* whether the double nearest to n / c is next_int, for
\* next_int - 1 <= n / c < next_int: it is when n / c is not below
\* next_int by more than half the spacing 2^-g of the doubles below next_int
\* (a tie goes to next_int, whose significand is even)
FloatRoundsUpTo(next_int, n_scaled, c, g) ==
    BigLeq(BigTrim(BigShl(BigMul(c.m, next_int), g)),
           BigTrim(BigAdd(BigShl(n_scaled, g), c.m)))

FloatDivTruncFrom(k, n_scaled, c) ==
    IF FloatRoundsUpTo(k + 1, n_scaled, c,
                       IF k + 1 = Pow2(Bits(k + 1) - 1)
                       THEN 55 - Bits(k + 1) ELSE 54 - Bits(k + 1))
    THEN k + 1 ELSE k

FloatDivTruncScaled(n_scaled, c) ==
    FloatDivTruncFrom(BigQuotient(c.m, n_scaled), n_scaled, c)

\* int(n / c) for an integer 0 < n < 2^20 and a double c with n / c < 1023
\* and c.e < 0
FloatDivTrunc(n, c) == FloatDivTruncScaled(BigShl(BigOf(n), -c.e), c)

\* _MAX_SPEED_CORRECTION = 0.04, the double 0x1.47ae147ae147bp-5
MAX_SPEED_CORRECTION ==
    [m |-> <<123, 901, 122, 901, 122, 5>>, e |-> -57]

\* ------------------------------------------------------------------------
\* Drift corrector
\* ------------------------------------------------------------------------

\* interval_frames of _update_correction_schedule for an |error| = abs_err past
\* the deadband, in doubles as the code computes it:
\*   frames_error = abs_err * sample_rate / 1_000_000.0
\*   desired_corrections_per_sec = frames_error / _CORRECTION_TARGET_SECONDS
\*   max_corrections_per_sec = sample_rate * _MAX_SPEED_CORRECTION
\*   max(int(sample_rate / min(desired, max)), 1)
\* (the division by _CORRECTION_TARGET_SECONDS, 2.0, lowers the exponent by 1)
interval_frames(abs_err, sample_rate) ==
    Max(1, FloatDivTrunc(
               sample_rate,
               FloatMin([FloatQuotient(BigMul(BigOf(abs_err), sample_rate),
                                       MICROSECONDS_PER_SECOND, 0)
                             EXCEPT !.e = @ - 1],
                        FloatQuotient(BigMul(MAX_SPEED_CORRECTION.m, sample_rate), 1,
                                      MAX_SPEED_CORRECTION.e))))

\* the re-anchor condition of _update_correction_schedule
reanchor_due(p, abs_err, now_loop_us) ==
    /\ abs_err > REANCHOR_THRESHOLD_US
    /\ p.playback_state = PLAYING
    /\ now_loop_us - p.last_reanchor_loop_time_us > REANCHOR_COOLDOWN_US

\* _update_correction_schedule, the first of the two assignments that set
\* the direction: the cadence that becomes interval_frames
set_cadence_first(p, filtered_us, interval) ==
    IF filtered_us > 0 THEN [p EXCEPT !.drop_every_n_frames = interval]
    ELSE [p EXCEPT !.insert_every_n_frames = interval]

\* _update_correction_schedule without the second assignment: the other
\* cadence keeps its value
set_cadence_second_keeping_other(p, filtered_us) == p

\* _update_correction_schedule, the second assignment: the other cadence
\* becomes 0
set_cadence_second(p, filtered_us) ==
    IF filtered_us > 0 THEN [p EXCEPT !.insert_every_n_frames = 0]
    ELSE [p EXCEPT !.drop_every_n_frames = 0]

\* AudioPlayer._update_correction_schedule; filtered_us is the posterior mean
\* the Kalman filter (SendspinTimeFilter, an external library) returns for
\* this measurement.
update_correction_schedule(p, error_us, now_loop_us, filtered_us) ==
    IF p.format = None THEN p
    ELSE LET p1      == [p EXCEPT !.sync_error_filtered_us = filtered_us]
             abs_err == Abs(filtered_us)
         IN  IF abs_err <= CORRECTION_DEADBAND_US
             THEN [p1 EXCEPT !.insert_every_n_frames = 0,
                             !.drop_every_n_frames   = 0]
             ELSE IF reanchor_due(p1, abs_err, now_loop_us)
             THEN clear([p1 EXCEPT !.insert_every_n_frames      = 0,
                                   !.drop_every_n_frames        = 0,
                                   !.frames_until_next_insert   = 0,
                                   !.frames_until_next_drop     = 0,
                                   !.last_reanchor_loop_time_us = now_loop_us])
             ELSE set_cadence_second(
                      set_cadence_first(
                          p1, filtered_us,
                          interval_frames(abs_err, Val(p.format).sample_rate)),
                      filtered_us)

\* ------------------------------------------------------------------------
\* Chunk ingress
\* ------------------------------------------------------------------------

\* chunk duration: (frames * 1_000_000) // sample_rate
duration_us(fmt, frames) == MulDivFloor(frames, MICROSECONDS_PER_SECOND, fmt.sample_rate)

\* frames in a time span: (us * sample_rate) // 1_000_000
frames_in_us(fmt, us) == MulDivFloor(us, fmt.sample_rate, MICROSECONDS_PER_SECOND)

\* the deferred clear resetting the flag and nothing else
submit_deferred_clear_flag_only(p) == [p EXCEPT !.clear_requested = FALSE]

\* submit, "Handle deferred operations from audio thread"
submit_deferred_clear(p) ==
    IF p.clear_requested THEN clear([p EXCEPT !.clear_requested = FALSE]) ELSE p

\* the payload checks without the check of the length
submit_accepts_any_length(p, payload) ==
    /\ p.format # None
    /\ Val(p.format).frame_size # 0

\* submit, the payload checks: the chunk is dropped when this is false
submit_accepts(p, payload) ==
    /\ p.format # None
    /\ Val(p.format).frame_size # 0
    /\ payload.len % Val(p.format).frame_size = 0

submit_schedule_start_on_any_change(p, server_timestamp_us, now_us, offset) ==
    IF p.scheduled_start_loop_time_us = None
    THEN LET scheduled_start == compute_client_time(server_timestamp_us, offset)
             p1      == [p EXCEPT !.scheduled_start_loop_time_us = Some(scheduled_start)]
             est_dac == estimate_dac_time_for_server_timestamp(p1, server_timestamp_us, offset)
         IN  [p1 EXCEPT
                !.scheduled_start_dac_time_us = IF est_dac # 0 THEN Some(est_dac) ELSE None,
                !.playback_state              = WAITING_FOR_START,
                !.first_server_timestamp_us   = Some(server_timestamp_us),
                !.early_start_suspect         =
                    IF scheduled_start - now_us <= EARLY_START_THRESHOLD_US THEN TRUE ELSE @]
    ELSE IF p.playback_state = WAITING_FOR_START /\ p.first_server_timestamp_us # None
    THEN LET updated_loop_start ==
                 compute_client_time(Val(p.first_server_timestamp_us), offset)
             p1      == [p EXCEPT !.scheduled_start_loop_time_us = Some(updated_loop_start)]
             est_dac == estimate_dac_time_for_server_timestamp(
                            p1, Val(p.first_server_timestamp_us), offset)
         IN  IF Abs(updated_loop_start - Val(p.scheduled_start_loop_time_us))
                  > 0
             THEN [p1 EXCEPT !.scheduled_start_dac_time_us =
                                 IF est_dac # 0 THEN Some(est_dac) ELSE None]
             ELSE p
    ELSE p

\* submit, "On first real chunk, schedule start time" and "While waiting to
\* start, keep the scheduled loop start updated"
submit_schedule_start(p, server_timestamp_us, now_us, offset) ==
    IF p.scheduled_start_loop_time_us = None
    THEN LET scheduled_start == compute_client_time(server_timestamp_us, offset)
             p1      == [p EXCEPT !.scheduled_start_loop_time_us = Some(scheduled_start)]
             est_dac == estimate_dac_time_for_server_timestamp(p1, server_timestamp_us, offset)
         IN  [p1 EXCEPT
                !.scheduled_start_dac_time_us = IF est_dac # 0 THEN Some(est_dac) ELSE None,
                !.playback_state              = WAITING_FOR_START,
                !.first_server_timestamp_us   = Some(server_timestamp_us),
                !.early_start_suspect         =
                    IF scheduled_start - now_us <= EARLY_START_THRESHOLD_US THEN TRUE ELSE @]
    ELSE IF p.playback_state = WAITING_FOR_START /\ p.first_server_timestamp_us # None
    THEN LET updated_loop_start ==
                 compute_client_time(Val(p.first_server_timestamp_us), offset)
             p1      == [p EXCEPT !.scheduled_start_loop_time_us = Some(updated_loop_start)]
             est_dac == estimate_dac_time_for_server_timestamp(
                            p1, Val(p.first_server_timestamp_us), offset)
         IN  IF Abs(updated_loop_start - Val(p.scheduled_start_loop_time_us))
                  > START_TIME_UPDATE_THRESHOLD_US
             THEN [p1 EXCEPT !.scheduled_start_dac_time_us =
                                 IF est_dac # 0 THEN Some(est_dac) ELSE None]
             ELSE p
    ELSE p

submit_measures_error_in_any_state(p) ==
    /\ p.last_known_playback_position_us > 0
    /\ p.server_ts_cursor_us > 0

\* submit, the condition under which the sync error is measured
submit_measures_error(p) ==
    /\ p.playback_state = PLAYING
    /\ p.last_known_playback_position_us > 0
    /\ p.server_ts_cursor_us > 0

\* submit, the raw sync error
sync_error_us(p) == p.last_known_playback_position_us - p.server_ts_cursor_us

\* submit, "compute sync error and schedule micro-corrections"
submit_correct(p, now_us, filtered_us) ==
    IF submit_measures_error(p)
    THEN update_correction_schedule(p, sync_error_us(p), now_us, filtered_us)
    ELSE p

\* the silence chunk stamped with the timestamp of the chunk it precedes
gap_silence_stamped_late(fmt, expected_us, gap_us) ==
    QueuedChunk(expected_us + gap_us,
                SilenceBytes(frames_in_us(fmt, gap_us) * fmt.frame_size))

\* submit, the silence chunk for a gap of gap_us
gap_silence(fmt, expected_us, gap_us) ==
    QueuedChunk(expected_us, SilenceBytes(frames_in_us(fmt, gap_us) * fmt.frame_size))

\* the trim counted in frames, not in bytes
trim_bytes_in_frames(fmt, overlap_us) == frames_in_us(fmt, overlap_us)

\* submit, the bytes trimmed from a chunk that overlaps by overlap_us
trim_bytes(fmt, overlap_us) == frames_in_us(fmt, overlap_us) * fmt.frame_size

\* "Queue the chunk" with the chunk duration rounded up
submit_enqueue_rounding_up(p, server_timestamp_us, payload) ==
    LET fmt               == Val(p.format)
        chunk_frames      == payload.len \div fmt.frame_size
        chunk_duration_us == MulDivCeil(chunk_frames, MICROSECONDS_PER_SECOND,
                                        fmt.sample_rate)
    IN  IF payload.len > 0
        THEN [p EXCEPT !.queue = Append(@, QueuedChunk(server_timestamp_us, payload)),
                       !.queued_duration_us      = @ + chunk_duration_us,
                       !.expected_next_timestamp =
                           Some(server_timestamp_us + chunk_duration_us)]
        ELSE p

\* submit, "Queue the chunk"
submit_enqueue(p, server_timestamp_us, payload) ==
    LET fmt               == Val(p.format)
        chunk_frames      == payload.len \div fmt.frame_size
        chunk_duration_us == duration_us(fmt, chunk_frames)
    IN  IF payload.len > 0
        THEN [p EXCEPT !.queue = Append(@, QueuedChunk(server_timestamp_us, payload)),
                       !.queued_duration_us      = @ + chunk_duration_us,
                       !.expected_next_timestamp =
                           Some(server_timestamp_us + chunk_duration_us)]
        ELSE p

\* submit, "Start stream immediately when first chunk arrives"
submit_start_stream(p) ==
    IF ~p.stream_started /\ Len(p.queue) > 0 /\ p.stream # None
    THEN [p EXCEPT !.stream = Some([Val(@) EXCEPT !.active = TRUE]),
                   !.stream_started = TRUE]
    ELSE p

\* submit, gap/overlap reconciliation, enqueue and stream start
submit_reconcile(p, server_timestamp_us, payload) ==
    LET fmt      == Val(p.format)
        expected == Val(p.expected_next_timestamp)
    IN  IF p.expected_next_timestamp = None
        THEN submit_start_stream(submit_enqueue(
                 [p EXCEPT !.expected_next_timestamp = Some(server_timestamp_us)],
                 server_timestamp_us, payload))
        ELSE IF server_timestamp_us > expected
        THEN LET gap_us     == server_timestamp_us - expected
                 gap_frames == frames_in_us(fmt, gap_us)
                 p1 == [p EXCEPT
                          !.queue = Append(@, gap_silence(fmt, expected, gap_us)),
                          !.queued_duration_us      = @ + duration_us(fmt, gap_frames),
                          !.expected_next_timestamp = Some(server_timestamp_us)]
             IN  submit_start_stream(submit_enqueue(p1, server_timestamp_us, payload))
        ELSE IF server_timestamp_us < expected
        THEN LET overlap_us == expected - server_timestamp_us
                 trim       == trim_bytes(fmt, overlap_us)
             IN  IF trim < payload.len
                 THEN submit_start_stream(submit_enqueue(
                          p, expected,
                          [id  |-> payload.id,
                           off |-> payload.off + trim,
                           len |-> payload.len - trim]))
                 ELSE p
        ELSE submit_start_stream(submit_enqueue(p, server_timestamp_us, payload))

\* AudioPlayer.submit; now_us is loop.time() in microseconds, filtered_us the
\* filter's output should this call measure the sync error
submit(p, server_timestamp_us, payload, now_us, offset, filtered_us) ==
    LET p0 == submit_deferred_clear(p)
    IN  IF ~submit_accepts(p0, payload) THEN p0
        ELSE submit_reconcile(
                 submit_correct(
                     submit_schedule_start(p0, server_timestamp_us, now_us, offset),
                     now_us, filtered_us),
                 server_timestamp_us, payload)

\* ------------------------------------------------------------------------
\* Audio callback
\* ------------------------------------------------------------------------

\* a volume control that does not look at the mute flag
apply_volume_ignoring_mute(p, buf) ==
    IF p.volume = 0 THEN Zeros(Len(buf))
    ELSE IF p.volume = 100 THEN buf
    ELSE [i \in 1..Len(buf) |->
             IF buf[i] = ZeroByte THEN ZeroByte ELSE <<buf[i][1], buf[i][2], p.volume>>]

\* AudioPlayer._apply_volume on the whole buffer; a scaled sample keeps its
\* identity and carries the volume it was scaled by
apply_volume(p, buf) ==
    IF p.muted \/ p.volume = 0 THEN Zeros(Len(buf))
    ELSE IF p.volume = 100 THEN buf
    ELSE [i \in 1..Len(buf) |->
             IF buf[i] = ZeroByte THEN ZeroByte ELSE <<buf[i][1], buf[i][2], p.volume>>]

Repeat(x, n) == [i \in 1..n |-> x]

\* the slow path, "Drop frame": p is the player after the two reads.  The
\* loop state st is [p, out, room, frames_remaining, insert_counter,
\* drop_counter, events, hung, raised]; room is what is left of the output
\* buffer, and a write of more bytes than that raises.
slow_path_drop(st, p) ==
    IF Len(p.last_output_frame) > st.room
    THEN [st EXCEPT !.p = p, !.raised = TRUE]
    ELSE [st EXCEPT !.p                = p,
                    !.drop_counter     = p.drop_every_n_frames,
                    !.out              = @ \o p.last_output_frame,
                    !.room             = @ - Len(p.last_output_frame),
                    !.frames_remaining = @ - 1,
                    !.insert_counter   = @ - 1,
                    !.events           = Append(@, "D")]

\* the slow path, "Insert frame"
slow_path_insert(st) ==
    IF Len(st.p.last_output_frame) > st.room
    THEN [st EXCEPT !.raised = TRUE]
    ELSE [st EXCEPT !.insert_counter   = st.p.insert_every_n_frames,
                    !.out              = @ \o st.p.last_output_frame,
                    !.room             = @ - Len(st.p.last_output_frame),
                    !.frames_remaining = @ - 1,
                    !.drop_counter     = @ - 1,
                    !.events           = Append(@, "I")]

\* a correction event of the slow path
slow_path_event(st) ==
    IF st.frames_remaining <= 0 \/ st.raised THEN st
    ELSE IF st.drop_counter <= 0 /\ st.p.drop_every_n_frames > 0
    THEN slow_path_drop(st, read_one_input_frame(read_one_input_frame(st.p).p).p)
    ELSE IF st.insert_counter <= 0 /\ st.p.insert_every_n_frames > 0
    THEN slow_path_insert(st)
    ELSE st

\* the slow path, "Bulk read segment of normal frames": seg is what was read
slow_path_bulk(st, next_event_in, seg) ==
    IF Len(seg.result) > st.room
    THEN [st EXCEPT !.p = seg.p, !.raised = TRUE]
    ELSE [st EXCEPT !.p                = seg.p,
                    !.out              = @ \o seg.result,
                    !.room             = @ - Len(seg.result),
                    !.frames_remaining = @ - next_event_in,
                    !.insert_counter   = @ - next_event_in,
                    !.drop_counter     = @ - next_event_in,
                    !.events           = @ \o Repeat("N", next_event_in)]

\* the slow path, "if next_event_in > 0"
slow_path_read(st, next_event_in) ==
    IF next_event_in > 0
    THEN slow_path_bulk(st, next_event_in, read_input_frames_bulk(st.p, next_event_in))
    ELSE st

\* the segment of normal frames before the next correction event
slow_path_segment(st, insert_every_n, drop_every_n) ==
    slow_path_read(
        st,
        Min(Min(IF insert_every_n > 0 THEN st.insert_counter ELSE st.frames_remaining + 1,
                IF drop_every_n > 0 THEN st.drop_counter ELSE st.frames_remaining + 1),
            st.frames_remaining))

RECURSIVE slow_path_loop(_, _, _)

\* after one iteration of the while loop: an iteration that changes nothing
\* would repeat forever and is reported as hung
slow_path_next(st, st1, insert_every_n, drop_every_n) ==
    IF st1 = st THEN [st EXCEPT !.hung = TRUE]
    ELSE slow_path_loop(st1, insert_every_n, drop_every_n)

\* the while loop of the slow path
slow_path_loop(st, insert_every_n, drop_every_n) ==
    IF st.frames_remaining <= 0 \/ st.raised THEN st
    ELSE slow_path_next(
             st, slow_path_event(slow_path_segment(st, insert_every_n, drop_every_n)),
             insert_every_n, drop_every_n)

\* the slow path, "Write cadence state back", which an exception skips
slow_path_result(st) ==
    [p      |-> IF st.raised THEN st.p
                ELSE [st.p EXCEPT !.frames_until_next_insert = st.insert_counter,
                                  !.frames_until_next_drop   = st.drop_counter],
     out    |-> st.out,
     events |-> st.events,
     hung   |-> st.hung,
     raised |-> st.raised]

\* the slow path after "Reset cadence counters if needed"
slow_path_run(p, frames, room, insert_every_n, drop_every_n) ==
    slow_path_result(
        slow_path_loop([p                |-> p,
                        out              |-> <<>>,
                        room             |-> room,
                        frames_remaining |-> frames,
                        insert_counter   |-> p.frames_until_next_insert,
                        drop_counter     |-> p.frames_until_next_drop,
                        events           |-> <<>>,
                        hung             |-> FALSE,
                        raised           |-> FALSE],
                       insert_every_n, drop_every_n))

\* the slow path of _audio_callback; insert_every_n and drop_every_n are the
\* snapshot of the correction schedule the callback took
slow_path(p, frames, room, insert_every_n, drop_every_n) ==
    slow_path_run(
        [p EXCEPT
           !.frames_until_next_insert =
               IF @ <= 0 /\ insert_every_n > 0 THEN insert_every_n ELSE @,
           !.frames_until_next_drop =
               IF @ <= 0 /\ drop_every_n > 0 THEN drop_every_n ELSE @,
           !.last_output_frame =
               IF @ = <<>> THEN Zeros(Val(p.format).frame_size) ELSE @],
        frames, room, insert_every_n, drop_every_n)

\* the fast path: r is what the bulk read returned; the slice assignment
\* raises when the buffer has less room than r.result is long
fast_path_result(r, frames, room) ==
    IF Len(r.result) > room
    THEN [p |-> r.p, out |-> <<>>, events |-> <<>>, hung |-> FALSE, raised |-> TRUE]
    ELSE [p |-> r.p, out |-> r.result, events |-> Repeat("N", frames), hung |-> FALSE,
          raised |-> FALSE]

\* the fast path of _audio_callback
fast_path(p, frames, room) ==
    fast_path_result(read_input_frames_bulk(p, frames), frames, room)

\* sample emission after the snapshot of the correction schedule, into a
\* buffer with room bytes left
emit_frames_from(p, frames, room, insert_every_n, drop_every_n) ==
    IF insert_every_n = 0 /\ drop_every_n = 0
    THEN fast_path(p, frames, room)
    ELSE slow_path(p, frames, room, insert_every_n, drop_every_n)

\* sample emission: the else branch of "if still waiting after gating"
emit_frames(p, frames, room) ==
    emit_frames_from(p, frames, room, p.insert_every_n_frames, p.drop_every_n_frames)

\* the path a snapshot of the correction schedule selects
emission_path(insert_every_n, drop_every_n) ==
    IF insert_every_n = 0 /\ drop_every_n = 0 THEN "fast" ELSE "slow"

callback_raised_returning_early(g, e, bytes_needed) ==
    [p       |-> [e.p EXCEPT !.current_chunk = None, !.current_chunk_offset = 0],
     outdata |-> apply_volume(e.p, Zeros(g.bytes_written) \o e.out
                                   \o Zeros(bytes_needed - g.bytes_written - Len(e.out))),
     path    |-> "raised",
     gate    |-> g.gate, at |-> g.p, events |-> e.events, hung |-> FALSE,
     counted |-> 0]

\* "except Exception": the rest of the buffer is filled with silence and the
\* partial chunk state is reset
callback_raised(g, e, bytes_needed) ==
    [p       |-> [e.p EXCEPT !.current_chunk = None, !.current_chunk_offset = 0],
     outdata |-> apply_volume(e.p, Zeros(g.bytes_written) \o e.out
                                   \o Zeros(bytes_needed - g.bytes_written - Len(e.out))),
     path    |-> "raised",
     gate    |-> g.gate, at |-> g.p, events |-> e.events, hung |-> FALSE,
     counted |-> 1]

\* _audio_callback after emission: g is the outcome of gating, e of emission
callback_emitted(g, e, path, bytes_needed) ==
    IF e.raised THEN callback_raised(g, e, bytes_needed)
    ELSE [p       |-> e.p,
          outdata |-> apply_volume(e.p, Zeros(g.bytes_written) \o e.out),
          path    |-> path,
          gate    |-> g.gate, at |-> g.p, events |-> e.events, hung |-> e.hung,
          counted |-> IF e.hung THEN 0 ELSE 1]

\* _audio_callback after gating: "If still waiting after gating, fill
\* remaining buffer with silence", else emit
callback_gated(g, frames) ==
    IF g.p.playback_state = WAITING_FOR_START
    THEN [p       |-> g.p,
          outdata |-> apply_volume(g.p, Zeros(frames * Val(g.p.format).frame_size)),
          path    |-> "gated", gate |-> g.gate, at |-> g.p, events |-> <<>>,
          hung    |-> FALSE, counted |-> 1]
    ELSE callback_emitted(
             g,
             emit_frames(g.p, frames,
                         frames * Val(g.p.format).frame_size - g.bytes_written),
             emission_path(g.p.insert_every_n_frames, g.p.drop_every_n_frames),
             frames * Val(g.p.format).frame_size)

\* _audio_callback after the playback position is updated: "Pre-start gating"
callback_positioned(p, frames, dac_time_us, loop_now_us) ==
    callback_gated(
        IF p.playback_state = WAITING_FOR_START
        THEN handle_start_gating(p, frames, dac_time_us, loop_now_us)
        ELSE [p |-> p, bytes_written |-> 0, gate |-> None],
        frames)

\* AudioPlayer._audio_callback.  Result: the player, the output buffer, and
\* what the invocation did: path ("underflow", "gated", "fast", "slow"), the
\* gate evaluated (None or <<current, target>>), the player as it was when
\* emission began (at), the kind of every emitted frame, and what the
\* invocation added to _callback_count before it returned (counted).
audio_callback(p, frames, dac_time_us, underflow, loop_now_us, offset) ==
    IF underflow
    THEN [p       |-> [p EXCEPT !.clear_requested = TRUE],
          outdata |-> Zeros(frames * Val(p.format).frame_size),
          path    |-> "underflow", gate |-> None, at |-> p, events |-> <<>>,
          hung    |-> FALSE, counted |-> 0]
    ELSE callback_positioned(
             update_playback_position_from_dac(p, dac_time_us, loop_now_us, offset),
             frames, dac_time_us, loop_now_us)

\* ------------------------------------------------------------------------
\* Stream lifecycle
\* ------------------------------------------------------------------------

\* AudioPlayer._close_stream
close_stream(p) == [p EXCEPT !.stream = None]

\* AudioPlayer.set_format
set_format(p, pcm_format) ==
    [close_stream([p EXCEPT !.format = Some(pcm_format)]) EXCEPT
        !.stream_started   = FALSE,
        !.first_real_chunk = TRUE,
        !.stream           = Some([active |-> FALSE])]

\* AudioPlayer.stop
\* a stop() that sets the flag and leaves the stream where it is
stop_without_closing_stream(p) == [p EXCEPT !.closed = TRUE]

stop(p) == close_stream([p EXCEPT !.closed = TRUE])

\* AudioPlayer.set_volume
set_volume(p, volume, muted) ==
    [p EXCEPT !.volume = Max(0, Min(100, volume)), !.muted = muted]

\* ------------------------------------------------------------------------
\* State
\* ------------------------------------------------------------------------

VARIABLES
    player,     \* the AudioPlayer object
    now,        \* loop.time() in microseconds
    offset,     \* the time-sync collaborator's current clock offset
    outdata,    \* the output buffer the last callback filled
    last,       \* the last operation, its arguments and what it did
    count,      \* how often each operation has run, and how often closing a
                \* stream has failed
    gated,      \* ids of chunks enqueued while WaitingForStart and not yet
                \* released by a callback that saw the start time
    drift,      \* spacing of the correction events under the current cadence
    reanchors,  \* loop times of the re-anchors performed
    anchor,     \* the chunk the current start was scheduled for, and what
                \* was played first after a re-anchor
    streams,    \* output streams opened in the audio backend and not closed
    threads,    \* where the event thread and the audio thread stand when
                \* they are inside a method (None: not inside one)
    tape        \* the payload bytes accepted and the bytes the callbacks took
                \* and played, for as long as playback is undisturbed

vars == <<player, now, offset, outdata, last, count, gated, drift, reanchors, anchor,
          streams, threads, tape>>

\* ------------------------------------------------------------------------
\* Bounds
\* ------------------------------------------------------------------------

\* operations of one kind in a behaviour of Spec
MaxSubmits == 3

MaxCallbacks == 3

MaxTicks == 1

\* chunks submitted and clear() calls in a behaviour of SpecIngress
MaxChunks == 3

MaxClears == 1

\* operations of one kind in a behaviour of SpecDrift
MaxDriftSubmits == 4

MaxDriftCallbacks == 2

MaxSyncs == 1

\* submits and callbacks in a behaviour of SpecLifecycle, and the calls of
\* set_format, clear and stop and the revisions of the clock offset together
MaxLifeSubmits == 3

MaxLifeCallbacks == 2

MaxLifeEvents == 2

\* operations of one kind in a behaviour of SpecOrder
MaxOrderSubmits == 2

MaxOrderCallbacks == 3

MaxOrderTicks == 1

\* submits, callbacks, clears and ticks together in a behaviour of SpecClock
MaxClockSteps == 6

\* submits and callbacks together in a behaviour of SpecVolume
MaxVolumeSteps == 4

\* operations of one kind in a behaviour of SpecThreads
MaxThreadSubmits == 3

MaxThreadCallbacks == 2

MaxThreadSyncs == 2

MaxThreadClears == 1

\* submits, callbacks, clears and clock revisions together
MaxThreadSteps == 7

\* ------------------------------------------------------------------------
\* Observations
\* ------------------------------------------------------------------------

\* frames queued and not yet read
QueuedBytes(p) ==
    LET SumLen[i \in 0..Len(p.queue)] ==
            IF i = 0 THEN 0 ELSE SumLen[i - 1] + p.queue[i].audio_data.len
    IN  SumLen[Len(p.queue)]
        + (IF p.current_chunk = None THEN 0
           ELSE Val(p.current_chunk).audio_data.len - p.current_chunk_offset)

\* what a callback found when emission began
View(p) ==
    [state      |-> p.playback_state,
     cursor_us  |-> p.server_ts_cursor_us,
     remainder  |-> p.server_ts_cursor_remainder,
     queued     |-> QueuedBytes(p),
     loading    |-> IF p.current_chunk # None \/ p.queue = <<>> THEN None
                    ELSE Some(Head(p.queue))]

NoOp ==
    [op |-> "init", ts |-> 0, payload |-> [id |-> 0, off |-> 0, len |-> 0],
     accepted |-> FALSE,
     measured |-> FALSE, filtered |-> 0, reanchored |-> FALSE, cleared |-> FALSE,
     frames |-> 0, dac |-> 0, path |-> "", gate |-> None,
     at |-> [state |-> "", cursor_us |-> 0, remainder |-> 0, queued |-> 0,
             loading |-> None],
     events |-> <<>>, hung |-> FALSE, failed |-> FALSE, volume |-> 0, muted |-> FALSE,
     counted |-> 0]

NoDrift == [since_out |-> None, since_in |-> 0, spacing |-> None, consumed |-> None,
            kind |-> ""]

NoAnchor == [sched_id |-> 0, pending |-> FALSE, first_played |-> None]

NoThreads == [event |-> None, audio |-> None]

\* Undisturbed playback: no clear (called, deferred or by re-anchor), no gap
\* or overlap, both cadences zero, no underflow, one format, no stop.
NoTape == [clean |-> TRUE, submitted |-> <<>>, consumed |-> 0, played |-> 0]

Disturbed == [NoTape EXCEPT !.clean = FALSE]

\* the output streams a player holds open
OpenStreams(p) == IF p.stream = None THEN 0 ELSE 1

\* the payload bytes (not zero) of an output buffer, in order
PayloadOf(buf) == SelectSeq(buf, LAMBDA b : b # ZeroByte)

RECURSIVE DriftFold(_, _)
DriftFold(d, events) ==
    IF events = <<>> THEN d
    ELSE LET e    == Head(events)
             used == IF e = "N" THEN 1 ELSE IF e = "D" THEN 2 ELSE 0
             d1   == IF e = "N"
                     THEN [d EXCEPT !.since_out = IF @ = None THEN None ELSE Some(Val(@) + 1),
                                    !.since_in  = @ + 1]
                     ELSE [d EXCEPT !.spacing   = IF d.since_out = None THEN None
                                                  ELSE Some(Val(d.since_out) + 1),
                                    !.consumed  = IF d.since_out = None THEN None
                                                  ELSE Some(d.since_in + used),
                                    !.kind      = e,
                                    !.since_out = Some(0),
                                    !.since_in  = 0]
         IN  DriftFold(d1, Tail(events))

\* input frames a callback needs for its events
FramesNeeded(events) ==
    LET Sum[i \in 0..Len(events)] ==
            IF i = 0 THEN 0
            ELSE Sum[i - 1] + (IF events[i] = "N" THEN 1 ELSE IF events[i] = "D" THEN 2 ELSE 0)
    IN  Sum[Len(events)]

\* the filter's posterior mean lies between its prior mean and the measurement
FilterOutputs(p, error_us) == {error_us, (p.sync_error_filtered_us + error_us) \div 2}

\* ------------------------------------------------------------------------
\* Actions
\* ------------------------------------------------------------------------

Init ==
    /\ player = NewPlayer
    /\ now = REANCHOR_COOLDOWN_US + MICROSECONDS_PER_SECOND
    /\ offset = REANCHOR_COOLDOWN_US
    /\ outdata = <<>>
    /\ last = NoOp
    /\ count = [submit |-> 0, callback |-> 0, tick |-> 0, sync |-> 0, clear |-> 0,
                format |-> 0, stop |-> 0, failed |-> 0, since |-> 0]
    /\ gated = {}
    /\ drift = NoDrift
    /\ reanchors = <<>>
    /\ anchor = NoAnchor
    /\ streams = 0
    /\ threads = NoThreads
    /\ tape = NoTape

\* count.since is the number of accepted submits since the last set_format
\* or clear()
Bump(op) == count' = [count EXCEPT ![op] = @ + 1]

\* the ghost of the correction events follows the cadence in force
DriftAfter(p1, p2, d) ==
    IF p2.insert_every_n_frames # p1.insert_every_n_frames
       \/ p2.drop_every_n_frames # p1.drop_every_n_frames
    THEN NoDrift ELSE d

\* set_format(pcm_format, device): audio_connector.py gives every player its
\* format once, right after constructing it
SetFormat(rate, channels) ==
    /\ threads.event = None
    /\ player.format = None
    /\ player' = set_format(player, PCMFormat(rate, channels))
    /\ streams' = streams - OpenStreams(player) + OpenStreams(player')
    /\ last' = [NoOp EXCEPT !.op = "set_format"]
    /\ count' = [count EXCEPT !.format = @ + 1, !.since = 0]
    /\ UNCHANGED <<now, offset, outdata, gated, drift, reanchors, anchor, threads, tape>>

\* what a submit call leaves behind: p0 is the player after the deferred
\* clear, ps after the start is scheduled, p2 when the call returns
SubmitDone(ts, payload, cleared, accepted, measured, filtered_us, scheduled, reanchored, p2) ==
    /\ player' = p2
    /\ last' = [NoOp EXCEPT !.op = "submit", !.ts = ts, !.payload = payload,
                            !.accepted = accepted, !.measured = measured,
                            !.filtered = filtered_us,
                            !.reanchored = reanchored,
                            !.cleared = cleared]
    /\ gated' = IF p2.playback_state = WAITING_FOR_START
                   /\ \E i \in 1..Len(p2.queue) : p2.queue[i].audio_data.id = payload.id
                THEN gated \cup {payload.id} ELSE gated
    /\ drift' = DriftAfter(player, p2, drift)
    /\ reanchors' = IF reanchored THEN Append(reanchors, now) ELSE reanchors
    /\ anchor' = IF reanchored
                 THEN [sched_id |-> 0, pending |-> TRUE, first_played |-> None]
                 ELSE IF cleared
                 THEN [NoAnchor EXCEPT !.sched_id = IF scheduled THEN payload.id ELSE 0]
                 ELSE IF scheduled THEN [anchor EXCEPT !.sched_id = payload.id]
                 ELSE anchor
    /\ outdata' = outdata
    /\ tape' = IF /\ tape.clean
                  /\ ~cleared
                  /\ ~reanchored
                  /\ player.expected_next_timestamp \in {None, Some(ts)}
                  /\ p2.insert_every_n_frames = 0
                  /\ p2.drop_every_n_frames = 0
               THEN IF accepted
                    THEN [tape EXCEPT !.submitted = @ \o ByteSeq(payload, 0, payload.len)]
                    ELSE tape
               ELSE Disturbed
    /\ count' = [count EXCEPT
                     !.submit = @ + 1,
                     !.since  = IF reanchored THEN 0
                                ELSE (IF cleared THEN 0 ELSE @)
                                         + (IF accepted THEN 1 ELSE 0)]
    /\ UNCHANGED <<now, offset, streams>>

\* the filter answers a measurement with one of its possible outputs
SubmitMeasured(ts, payload, accepted, measured, scheduled, ps) ==
    \E filtered_us \in (IF measured THEN FilterOutputs(ps, sync_error_us(ps)) ELSE {0}) :
        /\ threads.event = None
        /\ threads' = threads
        /\ SubmitDone(ts, payload, player.clear_requested, accepted, measured,
                      filtered_us, scheduled,
                      /\ measured
                      /\ Abs(filtered_us) > CORRECTION_DEADBAND_US
                      /\ reanchor_due(ps, Abs(filtered_us), now),
                      submit(player, ts, payload, now, offset, filtered_us))

SubmitScheduled(ts, payload, accepted, scheduled, ps) ==
    SubmitMeasured(ts, payload, accepted, accepted /\ submit_measures_error(ps),
                   scheduled, ps)

SubmitChecked(ts, payload, p0) ==
    SubmitScheduled(ts, payload, submit_accepts(p0, payload),
                    submit_accepts(p0, payload) /\ p0.scheduled_start_loop_time_us = None,
                    submit_schedule_start(p0, ts, now, offset))

\* submit(server_timestamp_us, payload) with a payload of nbytes bytes
SubmitAt(ts, nbytes) ==
    SubmitChecked(ts, PayloadBytes(count.submit + 1, nbytes), submit_deferred_clear(player))

\* the timestamp of a submit call: the first of a stream lies lead_us after
\* the server's present, a later one delta_us after the expected next timestamp
SubmitTimes(p0, leads, deltas) ==
    IF p0.expected_next_timestamp = None
    THEN {compute_server_time(now, offset) + lead_us : lead_us \in leads}
    ELSE {Val(p0.expected_next_timestamp) + delta_us : delta_us \in deltas}

Submit(leads, deltas, sizes) ==
    \E nbytes \in sizes, ts \in SubmitTimes(submit_deferred_clear(player), leads, deltas) :
        SubmitAt(ts, nbytes)

\* what a callback leaves behind: r is the result of _audio_callback
CallbackDone(frames, dac_time_us, r) ==
    /\ player' = r.p
    /\ outdata' = r.outdata
    /\ last' = [NoOp EXCEPT !.op = "callback", !.frames = frames,
                            !.dac = dac_time_us, !.path = r.path, !.gate = r.gate,
                            !.at = View(r.at), !.events = r.events,
                            !.hung = r.hung, !.counted = r.counted]
    /\ gated' = IF r.gate # None /\ Val(r.gate)[1] >= Val(r.gate)[2] THEN {} ELSE gated
    /\ drift' = IF r.path \notin {"fast", "slow"}
                   \/ FramesNeeded(r.events) * Val(player.format).frame_size
                          > QueuedBytes(r.at)
                THEN NoDrift
                ELSE DriftFold(drift, r.events)
    /\ anchor' = IF anchor.pending /\ PayloadOf(r.outdata) # <<>>
                 THEN [anchor EXCEPT !.pending = FALSE,
                                     !.first_played = Some(PayloadOf(r.outdata)[1])]
                 ELSE anchor
    /\ tape' = IF tape.clean /\ r.path \in {"fast", "gated"}
               THEN [tape EXCEPT !.consumed = @ + QueuedBytes(player) - QueuedBytes(r.p),
                                 !.played = @ + Len(PayloadOf(r.outdata))]
               ELSE Disturbed
    /\ Bump("callback")
    /\ UNCHANGED <<now, offset, reanchors, streams>>

\* the audio backend invokes _audio_callback(outdata, frames, time, status)
CallbackWith(frames, dac_time_us, underflow) ==
    /\ threads.audio = None
    /\ player.format # None
    /\ player.stream # None
    /\ Val(player.stream).active
    /\ threads' = threads
    /\ CallbackDone(frames, dac_time_us,
                    audio_callback(player, frames, dac_time_us, underflow, now, offset))

\* a callback with status clear (underflow = FALSE) or reporting an output
\* underflow.  The DAC clock runs lead_us ahead of the loop clock; a backend
\* without timing information reports 0.
Callback(blocks, dac_leads, underflows) ==
    \E frames \in blocks, lead_us \in dac_leads, underflow \in underflows :
        CallbackWith(frames, IF lead_us = 0 THEN 0 ELSE now + lead_us, underflow)

\* clear()
Clear ==
    /\ threads.event = None
    /\ player' = clear(player)
    /\ last' = [NoOp EXCEPT !.op = "clear", !.at = View(player)]
    /\ drift' = DriftAfter(player, player', drift)
    /\ anchor' = NoAnchor
    /\ tape' = Disturbed
    /\ count' = [count EXCEPT !.clear = @ + 1, !.since = 0]
    /\ UNCHANGED <<now, offset, outdata, gated, reanchors, streams, threads>>

\* time passes
Tick(steps) ==
    /\ \E d \in steps : now' = now + d
    /\ last' = [NoOp EXCEPT !.op = "tick"]
    /\ Bump("tick")
    /\ UNCHANGED <<player, offset, outdata, gated, drift, reanchors, anchor, streams, threads,
                   tape>>

\* the time-sync layer revises its estimate of the clock offset
TimeSync(shifts) ==
    /\ \E d \in shifts : offset' = offset + d
    /\ last' = [NoOp EXCEPT !.op = "time_sync"]
    /\ Bump("sync")
    /\ UNCHANGED <<player, now, outdata, gated, drift, reanchors, anchor, streams, threads,
                   tape>>

\* the locals of a callback that is not at the point in question
NoLocals ==
    [pc |-> "", frames |-> 0, dac |-> 0, bytes_written |-> 0, gate |-> None,
     read |-> [has_gate |-> FALSE, can_drop_frames |-> FALSE, target_time_us |-> 0,
               current_time_us |-> 0],
     insert_every_n |-> 0, drop_every_n |-> 0, data |-> <<>>, chunk_len |-> 0]

\* The audio thread loses the processor inside _handle_start_gating, after it
\* has read the clock and the scheduled start and before "if delta_us > 0".
CallbackPreemptedGating(blocks) ==
    /\ threads.audio = None
    /\ player.format # None
    /\ player.stream # None
    /\ Val(player.stream).active
    /\ player.playback_state = WAITING_FOR_START
    /\ player' = update_playback_position_from_dac(player, 0, now, offset)
    /\ \E frames \in blocks :
           threads' = [threads EXCEPT !.audio =
               Some([NoLocals EXCEPT
                        !.pc = "gating", !.frames = frames,
                        !.read = handle_start_gating_reads(player', 0, now)])]
    /\ last' = [NoOp EXCEPT !.op = "callback_preempted", !.at = View(player)]
    /\ tape' = Disturbed
    /\ UNCHANGED <<now, offset, outdata, count, gated, drift, reanchors, anchor, streams>>

\* the callback up to the snapshot of the correction schedule: g is the
\* outcome of gating
CallbackSnapshotTaken(frames, g) ==
    /\ g.p.playback_state # WAITING_FOR_START
    /\ player' = g.p
    /\ threads' = [threads EXCEPT !.audio =
           Some([NoLocals EXCEPT
                    !.pc = "snapshot", !.frames = frames,
                    !.bytes_written = g.bytes_written, !.gate = g.gate,
                    !.insert_every_n = g.p.insert_every_n_frames,
                    !.drop_every_n = g.p.drop_every_n_frames])]
    /\ last' = [NoOp EXCEPT !.op = "callback_preempted", !.at = View(player)]
    /\ tape' = Disturbed
    /\ UNCHANGED <<now, offset, outdata, count, gated, drift, reanchors, anchor, streams>>

CallbackSnapshotAfter(frames, p) ==
    CallbackSnapshotTaken(
        frames,
        IF p.playback_state = WAITING_FOR_START
        THEN handle_start_gating(p, frames, 0, now)
        ELSE [p |-> p, bytes_written |-> 0, gate |-> None])

\* The audio thread loses the processor right after it has taken the
\* snapshot of the correction schedule (insert_every_n, drop_every_n).
CallbackPreemptedSnapshot(blocks) ==
    /\ threads.audio = None
    /\ player.format # None
    /\ player.stream # None
    /\ Val(player.stream).active
    /\ \E frames \in blocks :
           CallbackSnapshotAfter(
               frames, update_playback_position_from_dac(player, 0, now, offset))

\* The audio thread loses the processor inside _read_input_frames_bulk, in
\* the first iteration of a fast-path read in state Playing: it has copied
\* chunk_data[offset : offset + bytes_to_read] into its result (data) and has
\* not yet executed "self._current_chunk_offset += bytes_to_read"; the event
\* thread is between calls when this happens.
CallbackPreemptedReading(blocks) ==
    /\ threads.audio = None
    /\ threads.event = None
    /\ player.format # None
    /\ player.stream # None
    /\ Val(player.stream).active
    /\ player.playback_state = PLAYING
    /\ player.insert_every_n_frames = 0
    /\ player.drop_every_n_frames = 0
    /\ player.current_chunk # None \/ player.queue # <<>>
    /\ player' = ensure_current_chunk(
                     update_playback_position_from_dac(player, 0, now, offset))
    /\ \E frames \in blocks :
           threads' = [threads EXCEPT !.audio =
               Some([NoLocals EXCEPT
                        !.pc = "reading", !.frames = frames,
                        !.chunk_len = Val(player'.current_chunk).audio_data.len,
                        !.data = ByteSeq(Val(player'.current_chunk).audio_data,
                                         player'.current_chunk_offset,
                                         Min(Val(player'.current_chunk).audio_data.len
                                                 - player'.current_chunk_offset,
                                             frames * Val(player.format).frame_size))])]
    /\ last' = [NoOp EXCEPT !.op = "callback_preempted", !.at = View(player)]
    /\ tape' = Disturbed
    /\ UNCHANGED <<now, offset, outdata, count, gated, drift, reanchors, anchor, streams>>

\* the callback returns, or spins in its loop and never does
CallbackReturned(frames, r) ==
    /\ threads' = [threads EXCEPT !.audio =
                      IF r.hung THEN Some([NoLocals EXCEPT !.pc = "spinning"]) ELSE None]
    /\ CallbackDone(frames, 0, r)

\* the audio thread runs again and finishes the callback it was in, with the
\* locals it had and the attributes as they are now
CallbackResumed ==
    /\ threads.audio # None
    /\ \/ /\ Val(threads.audio).pc = "gating"
          /\ CallbackReturned(
                 Val(threads.audio).frames,
                 callback_gated(
                     handle_start_gating_from(player, Val(threads.audio).frames,
                                              Val(threads.audio).read),
                     Val(threads.audio).frames))
       \/ /\ Val(threads.audio).pc = "snapshot"
          /\ CallbackReturned(
                 Val(threads.audio).frames,
                 callback_emitted(
                     [p |-> player, bytes_written |-> Val(threads.audio).bytes_written,
                      gate |-> Val(threads.audio).gate],
                     emit_frames_from(player, Val(threads.audio).frames,
                                      Val(threads.audio).frames * Val(player.format).frame_size
                                          - Val(threads.audio).bytes_written,
                                      Val(threads.audio).insert_every_n,
                                      Val(threads.audio).drop_every_n),
                     emission_path(Val(threads.audio).insert_every_n,
                                   Val(threads.audio).drop_every_n),
                     Val(threads.audio).frames * Val(player.format).frame_size))
       \/ /\ Val(threads.audio).pc = "reading"
          \* the rest of the iteration on the attributes as they are now, with
          \* the locals chunk_data and bytes_to_read, then the rest of the loop
          /\ LET own   == Val(threads.audio)
                 fmt   == Val(player.format)
                 total == own.frames * fmt.frame_size
                 p1    == advance_server_cursor_frames(
                              [player EXCEPT !.current_chunk_offset = @ + Len(own.data)],
                              Len(own.data) \div fmt.frame_size)
                 p2    == IF p1.current_chunk_offset >= own.chunk_len
                          THEN advance_finished_chunk(p1) ELSE p1
             IN  CallbackReturned(
                     own.frames,
                     callback_emitted(
                         [p |-> player, bytes_written |-> 0, gate |-> None],
                         fast_path_result(
                             read_bulk_result(read_bulk_loop(p2, own.data, total),
                                              total, fmt.frame_size),
                             own.frames, total),
                         "fast", total))

\* The event thread loses the processor inside _update_correction_schedule,
\* between the two assignments that set the direction of correction: ps is
\* the player after the start is scheduled.
SubmitPreemptedIn(ts, payload, ps) ==
    /\ submit_measures_error(ps)
    /\ \E filtered_us \in FilterOutputs(ps, sync_error_us(ps)) :
           /\ Abs(filtered_us) > CORRECTION_DEADBAND_US
           /\ ~reanchor_due(ps, Abs(filtered_us), now)
           /\ player' = set_cadence_first(
                            [ps EXCEPT !.sync_error_filtered_us = filtered_us],
                            filtered_us,
                            interval_frames(Abs(filtered_us), Val(ps.format).sample_rate))
           /\ threads' = [threads EXCEPT !.event =
                  Some([pc |-> "direction", ts |-> ts, payload |-> payload,
                        filtered |-> filtered_us, cleared |-> player.clear_requested])]
           /\ last' = [NoOp EXCEPT !.op = "submit_preempted", !.ts = ts,
                                   !.payload = payload, !.filtered = filtered_us]
    /\ drift' = DriftAfter(player, player', drift)
    /\ tape' = Disturbed
    /\ UNCHANGED <<now, offset, outdata, count, gated, reanchors, anchor, streams>>

\* The event thread loses the processor inside submit: either in
\* _update_correction_schedule (SubmitPreemptedIn), or between
\* "self._queue.put_nowait(chunk)" and "self._queued_duration_us +=
\* chunk_duration_us", in a call that measures no error, finds nothing
\* buffered and has neither a gap nor an overlap to reconcile, made while
\* the audio thread is between callbacks.
SubmitPreemptedAt(ts, payload, p0) ==
    /\ submit_accepts(p0, payload)
    /\ \/ SubmitPreemptedIn(ts, payload, submit_schedule_start(p0, ts, now, offset))
       \/ LET ps == submit_schedule_start(p0, ts, now, offset)
          IN  /\ ~submit_measures_error(ps)
              /\ ps.expected_next_timestamp \in {None, Some(ts)}
              /\ ps.queue = <<>>
              /\ ps.current_chunk = None
              /\ ps.stream_started
              /\ threads.audio = None
              /\ payload.len > 0
              /\ player' = [ps EXCEPT
                                !.expected_next_timestamp = Some(ts),
                                !.queue = Append(@, QueuedChunk(ts, payload))]
              /\ threads' = [threads EXCEPT !.event =
                     Some([pc |-> "enqueued", ts |-> ts, payload |-> payload,
                           filtered |-> 0, cleared |-> player.clear_requested])]
              /\ last' = [NoOp EXCEPT !.op = "submit_preempted", !.ts = ts,
                                      !.payload = payload]
              /\ drift' = DriftAfter(player, player', drift)
              /\ tape' = Disturbed
              /\ UNCHANGED <<now, offset, outdata, count, gated, reanchors, anchor, streams>>

SubmitPreempted(leads, deltas, sizes) ==
    /\ threads.event = None
    /\ player.format # None
    /\ \E nbytes \in sizes, ts \in SubmitTimes(submit_deferred_clear(player), leads, deltas) :
           SubmitPreemptedAt(ts, PayloadBytes(count.submit + 1, nbytes),
                             submit_deferred_clear(player))

\* the event thread runs again and finishes the submit it was in: the second
\* assignment, then reconciliation, enqueue and stream start; or, after
\* put_nowait, the two additions of chunk_duration_us and the stream start
SubmitResumed ==
    /\ threads.event # None
    /\ threads' = [threads EXCEPT !.event = None]
    /\ \/ /\ Val(threads.event).pc = "direction"
          /\ SubmitDone(Val(threads.event).ts, Val(threads.event).payload,
                        Val(threads.event).cleared, TRUE, TRUE, Val(threads.event).filtered,
                        FALSE, FALSE,
                        submit_reconcile(
                            set_cadence_second(player, Val(threads.event).filtered),
                            Val(threads.event).ts, Val(threads.event).payload))
       \/ /\ Val(threads.event).pc = "enqueued"
          /\ LET own == Val(threads.event)
                 fmt == Val(player.format)
                 chunk_duration_us == duration_us(fmt, own.payload.len \div fmt.frame_size)
             IN  SubmitDone(own.ts, own.payload, own.cleared, TRUE, FALSE, 0,
                            FALSE, FALSE,
                            submit_start_stream(
                                [player EXCEPT
                                    !.queued_duration_us = @ + chunk_duration_us,
                                    !.expected_next_timestamp =
                                        Some(own.ts + chunk_duration_us)]))

\* set_format(pcm_format, device) called on a player that has a format; when
\* stream.stop() or stream.close() raises in _close_stream, the exception is
\* logged and the backend keeps the stream (failed)
Reformat(rate, channels) ==
    /\ threads.event = None
    /\ player.format # None
    /\ player' = set_format(player, PCMFormat(rate, channels))
    /\ \E failed \in {FALSE, player.stream # None} :
           /\ streams' = streams - (IF failed THEN 0 ELSE OpenStreams(player))
                              + OpenStreams(player')
           /\ last' = [NoOp EXCEPT !.op = "set_format", !.failed = failed]
           /\ count' = [count EXCEPT !.format = @ + 1,
                                     !.failed = IF failed THEN @ + 1 ELSE @,
                                     !.since  = 0]
    /\ tape' = Disturbed
    /\ UNCHANGED <<now, offset, outdata, gated, drift, reanchors, anchor, threads>>

\* stop()
Stop ==
    /\ threads.event = None
    /\ player' = stop(player)
    /\ \E failed \in {FALSE, player.stream # None} :
           /\ streams' = streams - (IF failed THEN 0 ELSE OpenStreams(player))
                              + OpenStreams(player')
           /\ last' = [NoOp EXCEPT !.op = "stop", !.failed = failed]
           /\ count' = [count EXCEPT !.stop = @ + 1,
                                     !.failed = IF failed THEN @ + 1 ELSE @]
    /\ tape' = Disturbed
    /\ UNCHANGED <<now, offset, outdata, gated, drift, reanchors, anchor, threads>>

\* what AudioStreamHandler._on_audio_chunk leaves behind when the chunk comes
\* in a new format: old is the player it found, cleared; player' the player it
\* constructed, configured and submitted the chunk to
FormatChanged(old, ts, payload) ==
    /\ streams' = streams - OpenStreams(player) + OpenStreams(old) + OpenStreams(player')
    /\ last' = [NoOp EXCEPT !.op = "format_change", !.ts = ts, !.payload = payload,
                            !.accepted = player'.queue # <<>>]
    /\ gated' = IF player'.queue # <<>> THEN {payload.id} ELSE {}
    /\ drift' = NoDrift
    /\ reanchors' = <<>>
    /\ anchor' = [NoAnchor EXCEPT !.sched_id =
                      IF player'.scheduled_start_loop_time_us # None THEN payload.id ELSE 0]
    /\ count' = [count EXCEPT !.format = @ + 1, !.submit = @ + 1,
                              !.since  = IF player'.queue # <<>> THEN 1 ELSE 0]
    /\ tape' = Disturbed
    /\ UNCHANGED <<now, offset, outdata, threads>>

\* AudioStreamHandler._on_audio_chunk(server_timestamp_us, audio_data, fmt)
\* with a format other than the current one
FormatChange(rate, channels, leads, sizes) ==
    /\ threads.event = None
    /\ player.format # None
    /\ Val(player.format) # PCMFormat(rate, channels)
    /\ \E nbytes \in sizes, lead_us \in leads :
           /\ player' = submit(set_format(NewPlayer, PCMFormat(rate, channels)),
                               compute_server_time(now, offset) + lead_us,
                               PayloadBytes(count.submit + 1, nbytes), now, offset, 0)
           /\ FormatChanged(clear(player), compute_server_time(now, offset) + lead_us,
                            PayloadBytes(count.submit + 1, nbytes))

\* set_volume(volume, muted=muted)
SetVolume(volumes, mutes) ==
    /\ threads.event = None
    /\ \E volume \in volumes, muted \in mutes :
           /\ player' = set_volume(player, volume, muted)
           /\ last' = [NoOp EXCEPT !.op = "set_volume", !.volume = volume, !.muted = muted]
    /\ UNCHANGED <<now, offset, outdata, count, gated, drift, reanchors, anchor, streams,
                   threads, tape>>

\* ------------------------------------------------------------------------
\* Specifications
\* ------------------------------------------------------------------------

\* the chunk submitted last is submitted again: same timestamp, same length
Resubmit ==
    /\ last.op = "submit"
    /\ last.accepted
    /\ SubmitAt(last.ts, last.payload.len)

\* the life of one stream at the scale of a few frames
Next ==
    \/ SetFormat(44100, 1)
    \/ count.submit < MaxSubmits /\ Submit({30}, {0}, {4, 5})
    \/ count.callback < MaxCallbacks /\ Callback({3}, {0, 40}, {FALSE})
    \/ count.callback < MaxCallbacks /\ Callback({2}, {40}, {TRUE})
    \/ count.tick < MaxTicks /\ Tick({40})

Spec == Init /\ [][Next]_vars

\* chunk ingress alone: gaps, overlaps and repeated chunks
NextIngress ==
    \/ SetFormat(44100, 1)
    \/ SetFormat(48000, 2)
    \/ count.submit < MaxChunks
       /\ Submit({30, -1000000}, {0, 10, 23, 10000000, -22, -50000}, {0, 4, 8820})
    \/ count.submit < MaxChunks /\ Resubmit
    \/ count.clear < MaxClears /\ Clear

SpecIngress == Init /\ [][NextIngress]_vars

\* drift correction at the scale of the correction cadences
NextDrift ==
    \/ SetFormat(44100, 1)
    \/ SetFormat(44040, 1)
    \/ count.submit < MaxDriftSubmits /\ Submit({-30}, {0}, {200})
    \/ count.callback < MaxDriftCallbacks /\ Callback({60}, {0}, {FALSE})
    \/ count.sync < MaxSyncs /\ TimeSync({100000, -100000, -600000})

SpecDrift == Init /\ [][NextDrift]_vars

\* the life of a player: formats, clears, re-anchors, underflows and stop;
\* a submit to a player whose stream is not started although chunks are
\* queued may also carry an empty payload
LifeEvents == Max(count.format - 1, 0) + count.clear + count.stop + count.sync

NextLifecycle ==
    \/ SetFormat(44100, 1)
    \/ LifeEvents < MaxLifeEvents /\ Reformat(44100, 2)
    \/ LifeEvents < MaxLifeEvents /\ count.submit < MaxLifeSubmits
       /\ FormatChange(44100, 2, {-30}, {4})
    \/ count.submit < MaxLifeSubmits
       /\ Submit({-30}, {0}, IF player.queue = <<>> \/ player.stream_started
                              THEN {4} ELSE {0, 4})
    \/ count.callback < MaxLifeCallbacks /\ Callback({3}, {0}, {FALSE, TRUE})
    \/ LifeEvents < MaxLifeEvents /\ TimeSync({-600000})
    \/ LifeEvents < MaxLifeEvents /\ Clear
    \/ LifeEvents < MaxLifeEvents /\ Stop

SpecLifecycle == Init /\ [][NextLifecycle]_vars

\* the calls made so far, for the bound on the length of a behaviour
Steps == count.submit + count.callback + count.tick + count.sync + count.clear

\* the event thread and the audio thread taking turns inside submit and the
\* callback; the clock offset is revised up by 100 ms and later down by 200 ms
NextThreads ==
    \/ SetFormat(44100, 1)
    \/ Steps < MaxThreadSteps /\ count.submit < MaxThreadSubmits
       /\ Submit({-30}, {0}, {200})
    \/ Steps < MaxThreadSteps /\ count.submit < MaxThreadSubmits
       /\ SubmitPreempted({-30}, {0}, {200})
    \/ SubmitResumed
    \/ Steps < MaxThreadSteps /\ count.callback < MaxThreadCallbacks
       /\ Callback({60}, {0}, {FALSE, TRUE})
    \/ Steps < MaxThreadSteps /\ count.callback < MaxThreadCallbacks
       /\ CallbackPreemptedGating({60})
    \/ Steps < MaxThreadSteps /\ count.callback < MaxThreadCallbacks
       /\ CallbackPreemptedSnapshot({60})
    \/ Steps < MaxThreadSteps /\ count.callback < MaxThreadCallbacks
       /\ CallbackPreemptedReading({60})
    \/ CallbackResumed
    \/ Steps < MaxThreadSteps /\ count.sync < MaxThreadSyncs
       /\ TimeSync(IF count.sync = 0 THEN {100000} ELSE {-200000})
    \/ Steps < MaxThreadSteps /\ count.clear < MaxThreadClears /\ Clear

SpecThreads == Init /\ [][NextThreads]_vars

\* A stream that starts well ahead of its first chunk's play time and is then
\* played undisturbed: the callbacks come before the start, on it
\* (Tick 800000) or late for it (Tick 800050), with and without DAC timing.
NextOrder ==
    \/ SetFormat(44100, 1)
    \/ count.submit < MaxOrderSubmits /\ Submit({800000}, {0}, {4, 6})
    \/ count.callback < MaxOrderCallbacks /\ Callback({3}, {0, 40}, {FALSE})
    \/ count.tick < MaxOrderTicks /\ Tick({800000, 800050})

SpecOrder == Init /\ [][NextOrder]_vars

\* The start of a stream on a backend with DAC timing: the first chunk is due
\* in exactly 700 ms or in 1 us more, the callbacks come before the start and
\* 50 us (or 1 us less) after it, and a clear() starts the stream over.
NextClock ==
    \/ SetFormat(44100, 1)
    \/ Steps < MaxClockSteps /\ Submit({700000, 700001}, {0}, {4})
    \/ Steps < MaxClockSteps /\ Callback({3}, {40}, {FALSE})
    \/ Steps < MaxClockSteps /\ Clear
    \/ Steps < MaxClockSteps /\ Tick({700050})

SpecClock == Init /\ [][NextClock]_vars

\* playback at every volume: levels below, in and above the range, muted or
\* not
NextVolume ==
    \/ SetFormat(44100, 1)
    \/ Steps < MaxVolumeSteps /\ Submit({-30}, {0}, {4})
    \/ Steps < MaxVolumeSteps /\ Callback({3}, {0}, {FALSE, TRUE})
    \/ SetVolume({-5, 0, 50, 100, 130}, {FALSE, TRUE})

SpecVolume == Init /\ [][NextVolume]_vars

\* starts on time and late starts, gated on the DAC clock once a callback has
\* calibrated it: chunks stamped 30 us in the past or 700001 us ahead, the
\* clock offset revised by 600 ms, time passing by 700050 us
MaxStartSteps == 7

NextStart ==
    \/ SetFormat(44100, 1)
    \/ Steps < MaxStartSteps /\ Submit({-30, 700001}, {0}, {8})
    \/ Steps < MaxStartSteps /\ Callback({3}, {40}, {FALSE})
    \/ Steps < MaxStartSteps /\ TimeSync({-600000})
    \/ Steps < MaxStartSteps /\ Tick({700050})

SpecStart == Init /\ [][NextStart]_vars

\* the scheduled start while waiting and after: a chunk stamped 700001 us
\* ahead, the clock offset revised by 5000 or 5001 us (at and just over the
\* threshold of a start-time update) or by 600 ms, callbacks with a DAC
\* time, some reporting an underflow, time passing by 700050 us
MaxScheduleSteps == 6

NextSchedule ==
    \/ SetFormat(44100, 1)
    \/ Steps < MaxScheduleSteps /\ Submit({700001}, {0}, {8})
    \/ Steps < MaxScheduleSteps /\ Callback({3}, {40}, {FALSE, TRUE})
    \/ Steps < MaxScheduleSteps /\ TimeSync({5000, 5001, -600000})
    \/ Steps < MaxScheduleSteps /\ Tick({700050})

SpecSchedule == Init /\ [][NextSchedule]_vars

\* a stream left to start: the clock offset stays as it is, nothing clears,
\* no callback reports an underflow.  The audio backend invokes the callback
\* periodically, each invocation later than the one before, and chunks come
\* in while time can still pass
MaxEventualSubmits == 3
MaxEventualTicks == 2

EventualTick ==
    /\ count.tick < MaxEventualTicks
    /\ Tick({800000})

\* the callback steps of NextEventual, told by what makes one possible and by the
\* count they leave: the backend can invoke the callback whenever the stream
\* is active
CallbackInvoked ==
    /\ count.callback <= count.tick
    /\ threads.audio = None
    /\ player.format # None
    /\ player.stream # None
    /\ Val(player.stream).active
    /\ count' = [count EXCEPT !.callback = @ + 1]

NextEventual ==
    \/ SetFormat(44100, 1)
    \/ count.submit < MaxEventualSubmits /\ count.tick < MaxEventualTicks
       /\ Submit({-30, 700001}, {0}, {8})
    \/ count.callback <= count.tick /\ Callback({3}, {0, 40}, {FALSE})
    \/ EventualTick

\* time advances and the backend keeps invoking the callback
SpecEventual ==
    /\ Init
    /\ [][NextEventual]_vars
    /\ WF_vars(EventualTick)
    /\ WF_count(CallbackInvoked)

\* ------------------------------------------------------------------------
\* Start gating
\* ------------------------------------------------------------------------

\* C1: a callback that runs in WaitingForStart and finds the gating clock
\* (DAC or loop) before the scheduled start writes only zeros, takes nothing
\* from the queue or the current chunk and leaves the read cursor alone; and
\* no byte of a chunk enqueued while WaitingForStart is in an output buffer
\* until a callback has found the clock at or past the scheduled start.
C1_StartGating ==
    /\ [][(/\ count'.callback = count.callback + 1
            /\ last'.gate # None
            /\ Val(last'.gate)[1] < Val(last'.gate)[2])
           => /\ outdata' = Zeros(last'.frames * Val(player.format).frame_size)
              /\ player'.queue = player.queue
              /\ player'.current_chunk = player.current_chunk
              /\ player'.current_chunk_offset = player.current_chunk_offset
              /\ player'.server_ts_cursor_us = player.server_ts_cursor_us
              /\ player'.server_ts_cursor_remainder = player.server_ts_cursor_remainder
              /\ player'.playback_state = WAITING_FOR_START]_vars
    /\ [](\A i \in 1..Len(outdata) : outdata[i][1] \notin gated)

\* a callback held the gate shut over a queued chunk
C1_Witness ==
    /\ last.op = "callback"
    /\ last.gate # None
    /\ Val(last.gate)[1] < Val(last.gate)[2]
    /\ player.queue # <<>>
    /\ gated # {}

\* ------------------------------------------------------------------------
\* Chunk ingress
\* ------------------------------------------------------------------------

\* C2 as the spec states it: every two adjacent chunks of the queue are
\* contiguous, the later one stamped with the earlier one's timestamp plus
\* the earlier one's duration frames * 1e6 / sample_rate in whole microseconds.
C2_Contiguity ==
    \A i \in 1..(Len(player.queue) - 1) :
        player.queue[i + 1].server_timestamp_us
            = player.queue[i].server_timestamp_us
              + duration_us(Val(player.format),
                            player.queue[i].audio_data.len \div Val(player.format).frame_size)

\* C2: a chunk that follows a payload chunk is contiguous with it; a chunk
\* that follows a synthetic silence chunk is stamped no earlier than the end
\* of the silence and later than it by less than one frame period plus one
\* microsecond (the part of the gap that is no whole frame, and the rounding
\* of the duration).
C2_ContiguityUpToOneFrame ==
    \A i \in 1..(Len(player.queue) - 1) :
        LET fmt      == Val(player.format)
            earlier  == player.queue[i]
            later    == player.queue[i + 1]
            gap_left == later.server_timestamp_us
                        - (earlier.server_timestamp_us
                           + duration_us(fmt, earlier.audio_data.len \div fmt.frame_size))
        IN  IF earlier.audio_data.id # 0 THEN gap_left = 0
            ELSE /\ gap_left >= 0
                 /\ (gap_left - 1) * fmt.sample_rate < MICROSECONDS_PER_SECOND

\* payload chunks in a row, and a payload chunk after a silence chunk that
\* ends before it
C2_Witness ==
    /\ Len(player.queue) >= 3
    /\ \E i \in 1..(Len(player.queue) - 1) :
           /\ player.queue[i].audio_data.id # 0
           /\ player.queue[i + 1].audio_data.id # 0
    /\ \E i \in 1..(Len(player.queue) - 1) :
           /\ player.queue[i].audio_data.id = 0
           /\ player.queue[i + 1].audio_data.id # 0
           /\ player.queue[i + 1].server_timestamp_us
                  > player.queue[i].server_timestamp_us
                    + duration_us(Val(player.format),
                                  player.queue[i].audio_data.len
                                      \div Val(player.format).frame_size)

\* C3 as the spec states it: a submit with a timestamp after the expected
\* one enqueues a silence chunk stamped with the expected timestamp whose
\* frames last exactly the gap, then the payload at its timestamp, and the
\* buffered duration grows by the silence duration plus the payload duration.
C3_GapFill ==
    [][(/\ count'.submit = count.submit + 1
        /\ last'.accepted
        /\ ~player.clear_requested
        /\ player.expected_next_timestamp # None
        /\ last'.ts > Val(player.expected_next_timestamp))
       => LET fmt      == Val(player.format)
              expected == Val(player.expected_next_timestamp)
              n        == Len(player.queue)
              payload_us == duration_us(fmt, last'.payload.len \div fmt.frame_size)
          IN  /\ Len(player'.queue) = n + 2
              /\ SubSeq(player'.queue, 1, n) = player.queue
              /\ player'.queue[n + 1].server_timestamp_us = expected
              /\ player'.queue[n + 1].audio_data.id = 0
              /\ duration_us(fmt, player'.queue[n + 1].audio_data.len \div fmt.frame_size)
                     = last'.ts - expected
              /\ player'.queue[n + 2] = QueuedChunk(last'.ts, last'.payload)
              /\ player'.queued_duration_us
                     = player.queued_duration_us + (last'.ts - expected) + payload_us]_vars

\* C3: a submit with a timestamp gap_us after the expected one enqueues a
\* silence chunk stamped with the expected timestamp that holds the whole
\* frames of the gap, floor(gap_us * sample_rate / 1e6) of them (none for a
\* gap shorter than a frame), so that its duration is at most the gap and
\* short of it by less than one frame period plus one microsecond; then the
\* payload at its timestamp unless the payload is empty; the buffered
\* duration grows by the silence duration plus the payload duration.
C3_GapFillWholeFrames ==
    [][(/\ count'.submit = count.submit + 1
        /\ last'.accepted
        /\ ~player.clear_requested
        /\ ~last'.reanchored
        /\ player.expected_next_timestamp # None
        /\ last'.ts > Val(player.expected_next_timestamp))
       => LET fmt        == Val(player.format)
              expected   == Val(player.expected_next_timestamp)
              gap_us     == last'.ts - expected
              n          == Len(player.queue)
              silence    == player'.queue[n + 1]
              silence_frames == silence.audio_data.len \div fmt.frame_size
              silence_us == duration_us(fmt, silence_frames)
              payload_us == duration_us(fmt, last'.payload.len \div fmt.frame_size)
          IN  /\ Len(player'.queue) = n + (IF last'.payload.len > 0 THEN 2 ELSE 1)
              /\ SubSeq(player'.queue, 1, n) = player.queue
              /\ silence.server_timestamp_us = expected
              /\ silence.audio_data.id = 0
              /\ silence.audio_data.len = silence_frames * fmt.frame_size
              /\ silence_frames = MulDivFloor(gap_us, fmt.sample_rate, MICROSECONDS_PER_SECOND)
              /\ silence_us <= gap_us
              /\ (gap_us - silence_us - 1) * fmt.sample_rate < MICROSECONDS_PER_SECOND
              /\ last'.payload.len > 0
                     => player'.queue[n + 2] = QueuedChunk(last'.ts, last'.payload)
              /\ player'.queued_duration_us
                     = player.queued_duration_us + silence_us + payload_us
              /\ player'.expected_next_timestamp = Some(last'.ts + payload_us)]_vars

\* a gap of ten seconds was filled before a payload
C3_Witness ==
    /\ last.op = "submit"
    /\ last.accepted
    /\ Len(player.queue) >= 3
    /\ player.queue[Len(player.queue)] = QueuedChunk(last.ts, last.payload)
    /\ player.queue[Len(player.queue) - 1].audio_data.id = 0
    /\ last.ts - player.queue[Len(player.queue) - 1].server_timestamp_us = 10000000
    /\ player.queue[Len(player.queue) - 1].audio_data.len
           = 10 * Val(player.format).sample_rate * Val(player.format).frame_size

\* C4: a submit with a timestamp overlap_us before the expected one loses
\* the leading floor(overlap_us * sample_rate / 1e6) frames of its payload and
\* is enqueued stamped with the expected timestamp; if that is the whole
\* payload, nothing is enqueued and nothing else changes.  4410 frames at
\* 50_000 us after 4410 frames at 0, 44100 Hz: 2205 frames at 100_000 us.
C4_OverlapTrim ==
    [][(/\ count'.submit = count.submit + 1
        /\ last'.accepted
        /\ ~player.clear_requested
        /\ ~last'.reanchored
        /\ player.expected_next_timestamp # None
        /\ last'.ts < Val(player.expected_next_timestamp))
       => LET fmt        == Val(player.format)
              expected   == Val(player.expected_next_timestamp)
              overlap_us == expected - last'.ts
              trimmed    == MulDivFloor(overlap_us, fmt.sample_rate, MICROSECONDS_PER_SECOND)
                                * fmt.frame_size
              n          == Len(player.queue)
              kept_us    == duration_us(fmt, (last'.payload.len - trimmed) \div fmt.frame_size)
          IN  /\ trimmed < last'.payload.len
                     => /\ player'.queue
                               = Append(player.queue,
                                        QueuedChunk(expected,
                                                    [id  |-> last'.payload.id,
                                                     off |-> trimmed,
                                                     len |-> last'.payload.len - trimmed]))
                        /\ player'.expected_next_timestamp = Some(expected + kept_us)
                        /\ player'.queued_duration_us = player.queued_duration_us + kept_us
              /\ trimmed >= last'.payload.len
                     => /\ player'.queue = player.queue
                        /\ player'.expected_next_timestamp = player.expected_next_timestamp
                        /\ player'.queued_duration_us = player.queued_duration_us
              /\ (/\ fmt.sample_rate = 44100 /\ fmt.frame_size = 2
                  /\ expected = 100000 /\ last'.ts = 50000 /\ last'.payload.len = 8820)
                     => player'.queue[n + 1]
                            = QueuedChunk(100000, [id  |-> last'.payload.id,
                                                   off |-> 4410, len |-> 4410])]_vars

\* the example of the spec: chunk B of 4410 frames at 50_000 us after chunk A
\* of 4410 frames at 0
C4_Witness ==
    /\ player.format # None
    /\ Val(player.format).sample_rate = 44100
    /\ last.op = "submit"
    /\ last.ts = 50000
    /\ player.queue = << QueuedChunk(0, [id |-> 1, off |-> 0, len |-> 8820]),
                         QueuedChunk(100000, [id |-> 2, off |-> 4410, len |-> 4410]) >>

\* C5 as the spec states it: a submit whose overlap with the expected next
\* timestamp is the full duration of its payload changes neither the queue
\* nor the expected next timestamp nor the buffered duration.
C5_TrimIdempotence ==
    [][(/\ count'.submit = count.submit + 1
        /\ last'.accepted
        /\ ~player.clear_requested
        /\ last'.payload.len > 0
        /\ player.expected_next_timestamp # None
        /\ Val(player.expected_next_timestamp) - last'.ts
               = duration_us(Val(player.format),
                             last'.payload.len \div Val(player.format).frame_size))
       => /\ player'.queue = player.queue
          /\ player'.expected_next_timestamp = player.expected_next_timestamp
          /\ player'.queued_duration_us = player.queued_duration_us]_vars

\* ------------------------------------------------------------------------
\* Cursor accounting
\* ------------------------------------------------------------------------

\* C6 as the spec states it: a fast-path callback that emits F frames, all of
\* them queued, advances cursor_us * sample_rate + remainder by exactly
\* F * 1_000_000 (the cursor by the quotient and the remainder to the rest of
\* remainder + F * 1_000_000 divided by sample_rate) and lowers the queued
\* bytes by F * frame_size; the remainder stays within 0 .. sample_rate - 1.
C6_CursorAccounting ==
    /\ player.format # None
           => /\ 0 <= player.server_ts_cursor_remainder
              /\ player.server_ts_cursor_remainder < Val(player.format).sample_rate
    /\ (/\ last.op = "callback"
        /\ last.path = "fast"
        /\ last.frames * Val(player.format).frame_size <= last.at.queued)
           => LET sr    == Val(player.format).sample_rate
                  total == last.at.remainder + last.frames * MICROSECONDS_PER_SECOND
              IN  /\ player.server_ts_cursor_us - last.at.cursor_us = total \div sr
                  /\ player.server_ts_cursor_remainder = total % sr
                  /\ QueuedBytes(player)
                         = last.at.queued - last.frames * Val(player.format).frame_size

\* C6: the same, the advance being measured from the cursor found when
\* emission begins if that is not zero; a cursor of zero is first set to the
\* timestamp of the chunk loaded from the head of the queue, and the advance
\* is measured from that timestamp.
C6_CursorAccountingFromLoad ==
    /\ player.format # None
           => /\ 0 <= player.server_ts_cursor_remainder
              /\ player.server_ts_cursor_remainder < Val(player.format).sample_rate
    /\ (/\ last.op = "callback"
        /\ last.path = "fast"
        /\ last.frames * Val(player.format).frame_size <= last.at.queued
        /\ last.at.cursor_us = 0
               => /\ last.at.loading # None
                  /\ Val(last.at.loading).server_timestamp_us # 0)
           => LET sr    == Val(player.format).sample_rate
                  total == last.at.remainder + last.frames * MICROSECONDS_PER_SECOND
                  from  == IF last.at.cursor_us # 0 THEN last.at.cursor_us
                           ELSE Val(last.at.loading).server_timestamp_us
              IN  /\ player.server_ts_cursor_us - from = total \div sr
                  /\ player.server_ts_cursor_remainder = total % sr
                  /\ QueuedBytes(player)
                         = last.at.queued - last.frames * Val(player.format).frame_size

\* a fast-path callback read its frames across a chunk boundary, starting
\* from a cursor with a remainder
C6_Witness ==
    /\ last.op = "callback"
    /\ last.path = "fast"
    /\ last.frames * Val(player.format).frame_size <= last.at.queued
    /\ last.at.cursor_us # 0
    /\ last.at.remainder # 0
    /\ player.server_ts_cursor_remainder # last.at.remainder
    /\ player.current_chunk # None
    /\ player.current_chunk_offset > 0

\* ------------------------------------------------------------------------
\* Drift correction
\* ------------------------------------------------------------------------

\* C11: whatever the smoothed error and the sample rate, a cadence written by
\* the drift corrector is an interval of at least 25 frames (1 / 0.04).
C11_ControlBounds ==
    /\ player.insert_every_n_frames # 0
           => player.insert_every_n_frames >= MAX_SPEED_CORRECTION_INV
    /\ player.drop_every_n_frames # 0
           => player.drop_every_n_frames >= MAX_SPEED_CORRECTION_INV

\* C7: under a constant drop cadence of k frames and with enough input
\* queued, consecutive drop events are exactly k emitted frames apart and
\* k + 1 input frames are consumed from one event to the next; under an
\* insert cadence of k, insert events are k emitted frames apart and k - 1
\* input frames are consumed.
C7_CorrectionArithmetic ==
    drift.spacing # None
        => /\ drift.kind = "D"
                  => /\ Val(drift.spacing) = player.drop_every_n_frames
                     /\ Val(drift.consumed) = player.drop_every_n_frames + 1
           /\ drift.kind = "I"
                  => /\ Val(drift.spacing) = player.insert_every_n_frames
                     /\ Val(drift.consumed) = player.insert_every_n_frames - 1

\* C8: two re-anchors are never performed less than the cooldown of 5 s of
\* loop time apart.
C8_ReanchorHysteresis ==
    \A i, j \in 1..Len(reanchors) :
        i < j => reanchors[j] - reanchors[i] >= REANCHOR_COOLDOWN_US

\* C9: a submit that re-anchors returns with both cadences and both
\* countdowns zero, nothing of what was queued before left, and the state
\* Initializing; the next accepted submit schedules the start from its own
\* timestamp, records it as the first timestamp and moves to WaitingForStart;
\* and the first frame played after the re-anchor is the first frame of the
\* chunk the start was scheduled for.
C9_ReanchorOutcome ==
    /\ [][/\ (count'.submit = count.submit + 1 /\ last'.reanchored)
                 => /\ player'.insert_every_n_frames = 0
                    /\ player'.drop_every_n_frames = 0
                    /\ player'.frames_until_next_insert = 0
                    /\ player'.frames_until_next_drop = 0
                    /\ player'.current_chunk = None
                    /\ \A i \in 1..Len(player'.queue) :
                           player'.queue[i].audio_data.id = last'.payload.id
                    /\ player'.playback_state = INITIALIZING
          /\ (/\ count'.submit = count.submit + 1
              /\ last'.accepted
              /\ reanchors # <<>>
              /\ anchor.sched_id = 0)
                 => /\ player'.scheduled_start_loop_time_us
                           = Some(compute_client_time(last'.ts, offset))
                    /\ player'.first_server_timestamp_us = Some(last'.ts)
                    /\ player'.playback_state = WAITING_FOR_START]_vars
    /\ [](anchor.first_played # None
              => Val(anchor.first_played) = <<anchor.sched_id, 0>>)

\* ------------------------------------------------------------------------
\* Underrun recovery
\* ------------------------------------------------------------------------

\* C10 as the spec states it: a callback with an underflow status writes
\* only zeros and sets clear_requested, changing nothing else; the next
\* submit clears first, resets clear_requested and treats its chunk as the
\* first chunk: state WaitingForStart, first_source_ts its timestamp.
C10_UnderrunRecovery ==
    [][/\ (count'.callback = count.callback + 1 /\ last'.path = "underflow")
              => /\ outdata' = Zeros(last'.frames * Val(player.format).frame_size)
                 /\ player' = [player EXCEPT !.clear_requested = TRUE]
       /\ (count'.submit = count.submit + 1 /\ player.clear_requested)
              => /\ ~player'.clear_requested
                 /\ player'.playback_state = WAITING_FOR_START
                 /\ player'.first_server_timestamp_us = Some(last'.ts)
                 /\ player'.scheduled_start_loop_time_us
                        = Some(compute_client_time(last'.ts, offset))
                 /\ player'.queue
                        = IF last'.payload.len > 0
                          THEN <<QueuedChunk(last'.ts, last'.payload)>> ELSE <<>>
                 /\ player'.current_chunk = None
                 /\ player'.server_ts_cursor_us = 0
                 /\ player'.dac_loop_calibrations = <<>>]_vars

\* C10: the same, the next submit treating its chunk as the first chunk when
\* its payload is a whole number of frames; a payload that is not is dropped
\* after the clear, which leaves the state Initializing and nothing scheduled.
C10_UnderrunRecoveryOfAcceptedChunk ==
    [][/\ (count'.callback = count.callback + 1 /\ last'.path = "underflow")
              => /\ outdata' = Zeros(last'.frames * Val(player.format).frame_size)
                 /\ player' = [player EXCEPT !.clear_requested = TRUE]
       /\ (count'.submit = count.submit + 1 /\ player.clear_requested)
              => /\ ~player'.clear_requested
                 /\ player'.current_chunk = None
                 /\ player'.server_ts_cursor_us = 0
                 /\ player'.dac_loop_calibrations = <<>>
                 /\ IF last'.payload.len % Val(player.format).frame_size = 0
                    THEN /\ player'.playback_state = WAITING_FOR_START
                         /\ player'.first_server_timestamp_us = Some(last'.ts)
                         /\ player'.scheduled_start_loop_time_us
                                = Some(compute_client_time(last'.ts, offset))
                         /\ player'.queue
                                = IF last'.payload.len > 0
                                  THEN <<QueuedChunk(last'.ts, last'.payload)>> ELSE <<>>
                    ELSE /\ player'.playback_state = INITIALIZING
                         /\ player'.first_server_timestamp_us = None
                         /\ player'.scheduled_start_loop_time_us = None
                         /\ player'.queue = <<>>]_vars

\* after an underflow during playback, a submit cleared the queue and
\* scheduled its own chunk as the first
C10_Witness ==
    /\ last.op = "submit"
    /\ last.cleared
    /\ last.accepted
    /\ count.submit >= 2
    /\ count.callback >= 2
    /\ player.playback_state = WAITING_FOR_START
    /\ player.queue = <<QueuedChunk(last.ts, last.payload)>>
    /\ player.first_server_timestamp_us = Some(last.ts)

\* ------------------------------------------------------------------------
\* Malformed chunks
\* ------------------------------------------------------------------------

\* C12 as the spec states it: a submit whose payload length is not a multiple
\* of the frame size leaves the queue, the expected next timestamp, the
\* scheduled start, the playback state, the cadences and the buffered
\* duration exactly as they were before the call.
C12_MalformedChunk ==
    [][(/\ count'.submit = count.submit + 1
        /\ player.format # None
        /\ last'.payload.len % Val(player.format).frame_size # 0)
           => /\ player'.queue = player.queue
              /\ player'.expected_next_timestamp = player.expected_next_timestamp
              /\ player'.scheduled_start_loop_time_us = player.scheduled_start_loop_time_us
              /\ player'.scheduled_start_dac_time_us = player.scheduled_start_dac_time_us
              /\ player'.playback_state = player.playback_state
              /\ player'.insert_every_n_frames = player.insert_every_n_frames
              /\ player'.drop_every_n_frames = player.drop_every_n_frames
              /\ player'.queued_duration_us = player.queued_duration_us]_vars

\* C12: the same when no clear is pending; when the callback has raised
\* clear_requested, the submit performs the deferred clear before it drops its
\* chunk and leaves all of these as clear() leaves them.  In both cases
\* nothing is enqueued.
C12_MalformedChunkAfterDeferredClear ==
    [][(/\ count'.submit = count.submit + 1
        /\ player.format # None
        /\ last'.payload.len % Val(player.format).frame_size # 0)
           => /\ ~last'.accepted
              /\ \A i \in 1..Len(player'.queue) :
                     player'.queue[i].audio_data.id # last'.payload.id
              /\ IF player.clear_requested
                 THEN /\ player'.queue = <<>>
                      /\ player'.expected_next_timestamp = None
                      /\ player'.scheduled_start_loop_time_us = None
                      /\ player'.scheduled_start_dac_time_us = None
                      /\ player'.playback_state = INITIALIZING
                      /\ player'.insert_every_n_frames = 0
                      /\ player'.drop_every_n_frames = 0
                      /\ player'.queued_duration_us = 0
                 ELSE /\ player'.queue = player.queue
                      /\ player'.expected_next_timestamp = player.expected_next_timestamp
                      /\ player'.scheduled_start_loop_time_us
                             = player.scheduled_start_loop_time_us
                      /\ player'.scheduled_start_dac_time_us
                             = player.scheduled_start_dac_time_us
                      /\ player'.playback_state = player.playback_state
                      /\ player'.insert_every_n_frames = player.insert_every_n_frames
                      /\ player'.drop_every_n_frames = player.drop_every_n_frames
                      /\ player'.queued_duration_us = player.queued_duration_us]_vars

\* a malformed chunk was dropped during playback, with audio queued and
\* buffered and no clear pending
C12_Witness ==
    /\ last.op = "submit"
    /\ ~last.accepted
    /\ ~last.cleared
    /\ player.format # None
    /\ last.payload.len % Val(player.format).frame_size # 0
    /\ player.playback_state = PLAYING
    /\ player.queue # <<>>
    /\ player.expected_next_timestamp # None
    /\ player.queued_duration_us > 0

\* ------------------------------------------------------------------------
\* Lifecycle
\* ------------------------------------------------------------------------

\* C13: when clear() returns, the queue is empty, the state is Initializing,
\* there is no current chunk and its offset is 0, the source read cursor and
\* its remainder are 0, both cadences and both countdowns are 0, the
\* calibration ring is empty, the scheduled start (loop and DAC), the first
\* and the expected next timestamp are unset, the buffered duration is 0 and
\* clear_requested is false; the format, the stream, the stream-started flag,
\* the volume and the mute setting are as they were.
C13_Clear ==
    [][count'.clear = count.clear + 1
           => /\ player'.queue = <<>>
              /\ player'.playback_state = INITIALIZING
              /\ player'.current_chunk = None
              /\ player'.current_chunk_offset = 0
              /\ player'.server_ts_cursor_us = 0
              /\ player'.server_ts_cursor_remainder = 0
              /\ player'.insert_every_n_frames = 0
              /\ player'.drop_every_n_frames = 0
              /\ player'.frames_until_next_insert = 0
              /\ player'.frames_until_next_drop = 0
              /\ player'.dac_loop_calibrations = <<>>
              /\ player'.scheduled_start_loop_time_us = None
              /\ player'.scheduled_start_dac_time_us = None
              /\ player'.first_server_timestamp_us = None
              /\ player'.expected_next_timestamp = None
              /\ player'.queued_duration_us = 0
              /\ ~player'.clear_requested
              /\ player'.format = player.format
              /\ player'.stream = player.stream
              /\ player'.stream_started = player.stream_started
              /\ player'.volume = player.volume
              /\ player'.muted = player.muted]_vars

\* clear() was called during playback, with a chunk partly read, audio
\* queued, a cursor with a remainder and the stream running
C13_Witness ==
    /\ last.op = "clear"
    /\ last.at.state = PLAYING
    /\ last.at.cursor_us > 0
    /\ last.at.remainder > 0
    /\ last.at.queued > 0
    /\ player.format # None
    /\ player.stream_started
    /\ player.stream # None

\* C14: the playback state changes only from Initializing to WaitingForStart
\* in a submit, from WaitingForStart to Playing in a callback, from Playing
\* to Initializing in a submit that re-anchors, and from any state to
\* Initializing in clear() or in the deferred clear a submit begins with; a
\* player put in place for a new format starts in Initializing and its first
\* submit may move it to WaitingForStart; Reanchoring is never entered.
C14_StateTransitions ==
    /\ [](player.playback_state # REANCHORING)
    /\ [][IF last'.op = "format_change"
          THEN player'.playback_state \in {INITIALIZING, WAITING_FOR_START}
          ELSE IF count'.submit = count.submit + 1
          THEN LET from == submit_deferred_clear(player).playback_state
               IN  /\ from # player.playback_state
                          => player.clear_requested /\ from = INITIALIZING
                   /\ \/ player'.playback_state = from
                      \/ /\ from = INITIALIZING
                         /\ player'.playback_state = WAITING_FOR_START
                      \/ /\ from = PLAYING
                         /\ last'.reanchored
                         /\ player'.playback_state = INITIALIZING
          ELSE IF count'.callback = count.callback + 1 \/ last'.op = "callback_preempted"
          THEN \/ player'.playback_state = player.playback_state
               \/ /\ player.playback_state = WAITING_FOR_START
                  /\ player'.playback_state = PLAYING
          ELSE IF count'.clear = count.clear + 1
          THEN player'.playback_state = INITIALIZING
          ELSE player'.playback_state = player.playback_state]_vars

\* ------------------------------------------------------------------------
\* The two threads
\* ------------------------------------------------------------------------

\* C15: in every state, the states between the two assignments of a
\* drift-corrector update included, and in every snapshot a callback has
\* taken, at most one of insert_every_n_frames and drop_every_n_frames is
\* nonzero.
C15_CadenceExclusivity ==
    /\ ~(player.insert_every_n_frames # 0 /\ player.drop_every_n_frames # 0)
    /\ threads.audio # None
           => ~(/\ Val(threads.audio).insert_every_n # 0
                /\ Val(threads.audio).drop_every_n # 0)

\* C16: every invocation of the audio callback returns, having written
\* exactly frames * frame_size bytes to the output buffer, whatever the event
\* thread does while it runs.
C16_CallbackCompletion ==
    /\ [](threads.audio # None => Val(threads.audio).pc # "spinning")
    /\ [][count'.callback = count.callback + 1
              => /\ ~last'.hung
                 /\ Len(outdata') = last'.frames * Val(player.format).frame_size]_vars

\* ------------------------------------------------------------------------
\* Playback order
\* ------------------------------------------------------------------------

C18_StreamRelease ==
    count.failed = 0
        => /\ streams <= 1
           /\ last.op = "stop" => streams = 0

\* C19: set_format on a player that has a format, queued audio and timing
\* state leaves the queue empty and the timing state (scheduled start,
\* expected next timestamp, source read cursor, calibration ring, cadences,
\* playback state) reset, so that the next submit is handled as a first
\* submit.
C19_SetFormatReset ==
    [][/\ last'.op = "set_format"
       /\ player.format # None
       => /\ player'.queue = <<>>
          /\ player'.current_chunk = None
          /\ player'.queued_duration_us = 0
          /\ player'.scheduled_start_loop_time_us = None
          /\ player'.scheduled_start_dac_time_us = None
          /\ player'.expected_next_timestamp = None
          /\ player'.first_server_timestamp_us = None
          /\ player'.server_ts_cursor_us = 0
          /\ player'.server_ts_cursor_remainder = 0
          /\ player'.dac_loop_calibrations = <<>>
          /\ player'.insert_every_n_frames = 0
          /\ player'.drop_every_n_frames = 0
          /\ player'.playback_state = INITIALIZING]_vars

\* C20: when the callback has raised clear_requested and stop() is then
\* called, no later submit performs the deferred clear: the submit leaves
\* what is queued and the chunk being read in place (unless it re-anchors).
C20_StopSkipsDeferredClear ==
    [][/\ count'.submit = count.submit + 1
       /\ last'.op = "submit"
       /\ player.closed
       /\ player.clear_requested
       /\ ~last'.reanchored
       => /\ Len(player'.queue) >= Len(player.queue)
          /\ SubSeq(player'.queue, 1, Len(player.queue)) = player.queue
          /\ player'.current_chunk = player.current_chunk
          /\ player'.current_chunk_offset = player.current_chunk_offset]_vars

\* C21: every stop() leaves the player closed and without a stream and
\* changes nothing else, whether or not closing the stream raised; stop()
\* called on a player that is closed and has no stream leaves the player and
\* the streams of the backend exactly as they were.
C21_StopIdempotence ==
    [][count'.stop = count.stop + 1
       => /\ player' = [player EXCEPT !.closed = TRUE, !.stream = None]
          /\ player.closed /\ player.stream = None
                 => /\ player' = player
                    /\ streams' = streams
                    /\ ~last'.failed]_vars

\* stop() was called a second time after a first stop() whose stream would
\* not close
C21_Witness ==
    /\ last.op = "stop"
    /\ count.stop = 2
    /\ count.format = 1
    /\ count.failed = 1
    /\ player.closed
    /\ player.stream = None
    /\ streams = 1

\* ------------------------------------------------------------------------
\* Clock mapping
\* ------------------------------------------------------------------------

\* C22 (as stated): with fewer than two calibration pairs in the ring (none
\* or exactly one) the estimate of the DAC time for a source timestamp is 0,
\* and a first submit in that situation leaves scheduled_start_dac unset.
C22_TooLittleCalibration ==
    /\ [](Len(player.dac_loop_calibrations) < 2
             => \A lead_us \in {0, 700000} :
                    estimate_dac_time_for_server_timestamp(
                        player, compute_server_time(now, offset) + lead_us, offset) = 0)
    /\ [][/\ count'.submit = count.submit + 1
          /\ last'.accepted
          /\ submit_deferred_clear(player).scheduled_start_loop_time_us = None
          /\ Len(submit_deferred_clear(player).dac_loop_calibrations) < 2
          => player'.scheduled_start_dac_time_us = None]_vars

\* C22 (amended): with no calibration pair in the ring the estimate is 0 and
\* a first submit leaves scheduled_start_dac unset; with exactly one pair
\* <<dac_ref, loop_ref>> the estimate is dac_ref + (compute_client_time(ts)
\* - loop_ref), slope 1, and a first submit sets scheduled_start_dac to it.
C22_NoCalibration ==
    /\ [](\A lead_us \in {0, 700000} :
              LET ts  == compute_server_time(now, offset) + lead_us
                  est == estimate_dac_time_for_server_timestamp(player, ts, offset)
                  c   == player.dac_loop_calibrations
              IN  /\ Len(c) = 0 => est = 0
                  /\ Len(c) = 1 => est = c[1][1] + compute_client_time(ts, offset) - c[1][2])
    /\ [][/\ count'.submit = count.submit + 1
          /\ last'.accepted
          /\ submit_deferred_clear(player).scheduled_start_loop_time_us = None
          => LET c   == submit_deferred_clear(player).dac_loop_calibrations
                 est == c[1][1] + compute_client_time(last'.ts, offset) - c[1][2]
             IN  /\ Len(c) = 0 => player'.scheduled_start_dac_time_us = None
                 /\ Len(c) = 1 => player'.scheduled_start_dac_time_us
                                      = IF est = 0 THEN None ELSE Some(est)]_vars

\* a first submit found exactly one calibration pair and scheduled the start
\* in DAC time
C22_Witness ==
    /\ last.op = "submit"
    /\ last.accepted
    /\ Len(player.queue) = 1
    /\ player.first_server_timestamp_us = Some(last.ts)
    /\ Len(player.dac_loop_calibrations) = 1
    /\ player.scheduled_start_dac_time_us
           = Some(player.dac_loop_calibrations[1][1]
                      + Val(player.scheduled_start_loop_time_us)
                      - player.dac_loop_calibrations[1][2])

\* ------------------------------------------------------------------------
\* Volume
\* ------------------------------------------------------------------------

\* C23: set_volume clamps the level into [0, 100] and stores the mute flag.
\* A callback leaves the player as it would at full volume (the same frames
\* consumed, the same cursor); when it does not take the underflow path its
\* buffer is all zeros if muted or volume = 0, and if volume = 100 and not
\* muted it holds the samples as they were submitted (in undisturbed playback
\* the next bytes of the payloads, then zeros).
C23_Volume ==
    /\ [](player.volume \in 0..100)
    /\ [][last'.op = "set_volume"
          => /\ player'.volume = Max(0, Min(100, last'.volume))
             /\ player'.muted = last'.muted
             /\ player' = [player EXCEPT !.volume = player'.volume,
                                         !.muted = player'.muted]]_vars
    /\ [][count'.callback = count.callback + 1
          => LET full == audio_callback([player EXCEPT !.volume = 100, !.muted = FALSE],
                                        last'.frames, last'.dac,
                                        last'.path = "underflow", now, offset)
             IN  /\ player' = [full.p EXCEPT !.volume = player.volume,
                                             !.muted = player.muted]
                 /\ last'.path = full.path
                 /\ last'.path # "underflow"
                        => /\ player.muted \/ player.volume = 0
                                  => outdata' = Zeros(Len(full.outdata))
                           /\ ~player.muted /\ player.volume = 100
                                  => /\ \A i \in 1..Len(outdata') : Len(outdata'[i]) = 2
                                     /\ tape'.clean /\ player'.playback_state = PLAYING
                                            => LET from == tape.consumed
                                                   n    == Min(Len(outdata'),
                                                               Len(tape.submitted) - from)
                                               IN  outdata' =
                                                       SubSeq(tape.submitted, from + 1, from + n)
                                                           \o Zeros(Len(outdata') - n)]_vars

\* a muted callback read frames from the queue and emitted zeros only
C23_Witness ==
    /\ last.op = "callback"
    /\ last.path = "fast"
    /\ player.muted
    /\ player.volume = 100
    /\ last.at.queued > QueuedBytes(player)
    /\ outdata = Zeros(last.frames * Val(player.format).frame_size)

\* ------------------------------------------------------------------------
\* Correction events
\* ------------------------------------------------------------------------

\* C24: in a slow-path callback with enough input queued, a drop event
\* consumes two input frames and an insert event none (the cursor advances by
\* the frames consumed), either emits one frame equal to the frame emitted
\* before it, one event fires per boundary, and both countdowns are
\* decremented by every emitted frame, the frame emitted by the event itself
\* included: a countdown reloaded with k by its event stands at k - 1 minus
\* the frames emitted after the event.
C24_CorrectionEvent ==
    [][/\ count'.callback = count.callback + 1
       /\ last'.path = "slow"
       /\ ~last'.hung
       /\ FramesNeeded(last'.events) * Val(player.format).frame_size <= last'.at.queued
       /\ last'.at.cursor_us # 0
       => LET E     == last'.events
              fs    == Val(player.format).frame_size
              sr    == Val(player.format).sample_rate
              total == last'.at.remainder + FramesNeeded(E) * MICROSECONDS_PER_SECOND
              Frame(i) == SubSeq(outdata', (i - 1) * fs + 1, i * fs)
              Before(i) == IF i > 1 THEN Frame(i - 1)
                           ELSE IF player.last_output_frame = <<>> THEN Zeros(fs)
                           ELSE player.last_output_frame
              Since(kind) == Len(E) - (CHOOSE i \in 1..Len(E) :
                                          /\ E[i] = kind
                                          /\ \A j \in i + 1..Len(E) : E[j] # kind)
              Fired(kind) == \E i \in 1..Len(E) : E[i] = kind
          IN  /\ Len(E) = last'.frames
              /\ QueuedBytes(player') = last'.at.queued - FramesNeeded(E) * fs
              /\ player'.server_ts_cursor_us - last'.at.cursor_us = total \div sr
              /\ player'.server_ts_cursor_remainder = total % sr
              /\ \A i \in 1..Len(E) : E[i] # "N" => Frame(i) = Before(i)
              /\ Fired("D") => player'.frames_until_next_drop
                                   = player.drop_every_n_frames - 1 - Since("D")
              /\ Fired("I") => player'.frames_until_next_insert
                                   = player.insert_every_n_frames - 1 - Since("I")]_vars

\* C25: a callback that has taken its snapshot of the cadences fires the
\* correction events the snapshot calls for and completes, whatever the event
\* thread writes to the cadences before the callback runs on: the events are
\* those of a player whose cadence attributes still hold the snapshot.
C25_SnapshotIsolation ==
    [][/\ threads.audio # None
       /\ Val(threads.audio).pc = "snapshot"
       /\ count'.callback = count.callback + 1
       => LET a == Val(threads.audio)
              isolated ==
                  emit_frames_from(
                      [player EXCEPT !.insert_every_n_frames = a.insert_every_n,
                                     !.drop_every_n_frames   = a.drop_every_n],
                      a.frames,
                      a.frames * Val(player.format).frame_size - a.bytes_written,
                      a.insert_every_n, a.drop_every_n)
          IN  /\ ~last'.hung
              /\ last'.events = isolated.events]_vars

\* C26: however clear() on the event thread interleaves with a callback that
\* started in WaitingForStart, a callback that runs on after the clear leaves
\* the state Initializing, and whenever neither thread is inside a method the
\* state is Initializing exactly when no scheduled start is set.
C26_ClearOverridesCallback ==
    /\ [](threads = NoThreads
             => (player.playback_state = INITIALIZING
                     <=> player.scheduled_start_loop_time_us = None))
    /\ [][/\ threads.audio # None
          /\ Val(threads.audio).pc = "gating"
          /\ player.playback_state = INITIALIZING
          /\ count'.callback = count.callback + 1
          => player'.playback_state = INITIALIZING]_vars

\* ---------------------------------------------------------------------------
\* Deadband and direction
\* ---------------------------------------------------------------------------

\* C27: after every update of the drift corrector (a submit that measured the
\* sync error), a smoothed error of at most 2 ms in magnitude leaves both
\* cadences at 0; otherwise, when the update did not re-anchor, a positive
\* smoothed error sets the drop cadence to the interval and the insert
\* cadence to 0, and a negative one sets the insert cadence to the interval
\* and the drop cadence to 0.
C27_DeadbandAndDirection ==
    [][/\ count'.submit = count.submit + 1
       /\ last'.measured
       => LET f        == last'.filtered
              interval == interval_frames(Abs(f), Val(player'.format).sample_rate)
          IN  /\ Abs(f) <= 2000
                     => /\ player'.insert_every_n_frames = 0
                        /\ player'.drop_every_n_frames   = 0
              /\ (Abs(f) > 2000 /\ ~last'.reanchored /\ f > 0)
                     => /\ player'.drop_every_n_frames   = interval
                        /\ player'.insert_every_n_frames = 0
                        /\ interval >= 1
              /\ (Abs(f) > 2000 /\ ~last'.reanchored /\ f < 0)
                     => /\ player'.insert_every_n_frames = interval
                        /\ player'.drop_every_n_frames   = 0
                        /\ interval >= 1]_vars

\* a submit measured a positive smoothed error beyond the deadband after the
\* clock mapping was revised twice, and left a drop cadence and no insert
\* cadence
C27_Witness ==
    /\ last.op = "submit"
    /\ last.measured
    /\ ~last.reanchored
    /\ last.filtered > 2000
    /\ count.sync = 2
    /\ threads = NoThreads
    /\ player.drop_every_n_frames > 0
    /\ player.insert_every_n_frames = 0

\* ---------------------------------------------------------------------------
\* First submit
\* ---------------------------------------------------------------------------

\* C28: the first accepted submit after set_format or clear (a deferred clear
\* and the clear of a re-anchor included) records its timestamp as the first
\* timestamp, schedules the start at compute_client_time of it, moves the
\* state to WaitingForStart and sets early_start_suspect exactly when the
\* scheduled start is at most 700 ms after the current loop time; no other
\* submit changes the first timestamp, unless it clears.
C28_FirstSubmit ==
    [][/\ count'.submit = count.submit + 1
       /\ last'.op = "submit"
       => LET first == /\ last'.accepted
                       /\ (IF last'.cleared THEN 0 ELSE count.since) = 0
              start == compute_client_time(last'.ts, offset)
          IN  /\ first
                    => /\ player'.first_server_timestamp_us = Some(last'.ts)
                       /\ player'.scheduled_start_loop_time_us = Some(start)
                       /\ player'.playback_state = WAITING_FOR_START
                       /\ player'.early_start_suspect <=> (start - now <= 700000)
              /\ (~first /\ ~last'.cleared /\ ~last'.reanchored)
                    => player'.first_server_timestamp_us
                           = player.first_server_timestamp_us]_vars

\* ---------------------------------------------------------------------------
\* Late start
\* ---------------------------------------------------------------------------

\* C29: when a callback finds the state WaitingForStart, gates on the DAC
\* clock and finds the scheduled start passed by d microseconds, and
\* early_start_suspect is false or the player has re-anchored (a stream
\* flagged early_start_suspect that has since re-anchored included), it
\* skips ceil(d * sample_rate / 1e6) input frames, as many of them as are
\* queued, advances the cursor by the frames skipped and moves to Playing.
C29_LateStartFastForward ==
    [][/\ count'.callback = count.callback + 1
       /\ player.playback_state = WAITING_FOR_START
       /\ player.scheduled_start_dac_time_us # None
       /\ last'.dac > Val(player.scheduled_start_dac_time_us)
       /\ (~player.early_start_suspect \/ reanchors # <<>>)
       => LET fmt     == Val(player.format)
              d       == last'.dac - Val(player.scheduled_start_dac_time_us)
              want    == MulDivCeil(d, fmt.sample_rate, 1000000)
              skipped == Min(want, QueuedBytes(player) \div fmt.frame_size)
              emitted == Len(PayloadOf(outdata')) \div fmt.frame_size
              from    == IF player.server_ts_cursor_us # 0
                         THEN player.server_ts_cursor_us
                         ELSE IF View(player).loading # None
                         THEN Val(View(player).loading).server_timestamp_us
                         ELSE 0
          IN  /\ player'.playback_state = PLAYING
              /\ QueuedBytes(player) - QueuedBytes(player')
                     = (skipped + emitted) * fmt.frame_size
              /\ player'.server_ts_cursor_us
                     = from + ((skipped + emitted) * 1000000
                                   + player.server_ts_cursor_remainder)
                                  \div fmt.sample_rate]_vars

\* ---------------------------------------------------------------------------
\* Eventual start
\* ---------------------------------------------------------------------------

\* C30: once a chunk has been accepted, with the clock mapping fixed, no
\* clear, no underflow, time advancing and the callback invoked again and
\* again, a callback that finds the state WaitingForStart moves it to Playing
\* exactly when the time it observes has reached the scheduled start, and the
\* state WaitingForStart always leads to the state Playing.
C30_EventualStart ==
    /\ [][/\ count'.callback = count.callback + 1
          /\ player.playback_state = WAITING_FOR_START
          => /\ last'.gate # None
             /\ player'.playback_state = PLAYING
                    <=> Val(last'.gate)[1] >= Val(last'.gate)[2]
             /\ player'.playback_state \in {PLAYING, WAITING_FOR_START}]_vars
    /\ (player.playback_state = WAITING_FOR_START)
           ~> (player.playback_state = PLAYING)

\* a stream that waited through a callback and a tick has started at a
\* callback that observed the scheduled start reached
C30_Witness ==
    /\ last.op = "callback"
    /\ player.playback_state = PLAYING
    /\ last.gate # None
    /\ Val(last.gate)[1] >= Val(last.gate)[2]
    /\ count.callback >= 2
    /\ count.tick >= 1
    /\ outdata # <<>>

\* ---------------------------------------------------------------------------
\* Queue underrun inside a callback
\* ---------------------------------------------------------------------------

\* C31: when a callback emits and the queue holds fewer frames than it
\* needs, the output is full, every byte after the first zero byte is zero
\* (the part of the buffer after the queue ran dry is silence), the read
\* cursor has advanced by the frames taken from the queue and no more, and
\* clear_requested and the playback state are what they were when emission
\* began.
C31_QueueUnderrun ==
    [][/\ count'.callback = count.callback + 1
       /\ last'.path \in {"fast", "slow"}
       /\ last'.at.queued < last'.frames * Val(player.format).frame_size
       => LET fmt   == Val(player.format)
              taken == last'.at.queued \div fmt.frame_size
              from  == IF last'.at.cursor_us # 0 THEN last'.at.cursor_us
                       ELSE IF last'.at.loading # None
                       THEN Val(last'.at.loading).server_timestamp_us
                       ELSE 0
          IN  /\ Len(outdata') = last'.frames * fmt.frame_size
              /\ outdata'[Len(outdata')] = ZeroByte
              /\ \A i \in 1..Len(outdata') : \A j \in i..Len(outdata') :
                     outdata'[i] = ZeroByte => outdata'[j] = ZeroByte
              /\ QueuedBytes(player') = 0
              /\ player'.server_ts_cursor_us
                     = from + (taken * 1000000 + last'.at.remainder) \div fmt.sample_rate
              /\ player'.clear_requested = player.clear_requested
              /\ player'.playback_state = last'.at.state]_vars

\* C32 (as stated): a callback in which an exception was raised returns a
\* full buffer whose unwritten rest is zeros, with no current chunk, offset
\* 0 and the playback state it had when emission began, and every callback
\* invocation that returns has incremented the callback count.
C32_NeverReturnsEarly ==
    [][/\ count'.callback = count.callback + 1
       /\ ~last'.hung
       => /\ last'.counted = 1
          /\ last'.path = "raised"
             => /\ Len(outdata') = last'.frames * Val(player.format).frame_size
                /\ outdata'[Len(outdata')] = ZeroByte
                /\ player'.current_chunk = None
                /\ player'.current_chunk_offset = 0
                /\ player'.playback_state = last'.at.state]_vars

\* C32 (amended): the same, except that a callback whose status reports an
\* underflow returns before the accounting step: it leaves a buffer of
\* zeros, sets clear_requested and does not increment the callback count.
C32_ExceptionHandling ==
    [][/\ count'.callback = count.callback + 1
       /\ ~last'.hung
       => /\ last'.counted = IF last'.path = "underflow" THEN 0 ELSE 1
          /\ last'.path = "underflow"
             => /\ outdata' = Zeros(last'.frames * Val(player.format).frame_size)
                /\ player' = [player EXCEPT !.clear_requested = TRUE]
          /\ last'.path = "raised"
             => /\ Len(outdata') = last'.frames * Val(player.format).frame_size
                /\ outdata'[Len(outdata')] = ZeroByte
                /\ player'.current_chunk = None
                /\ player'.current_chunk_offset = 0
                /\ player'.playback_state = last'.at.state]_vars

C32_Witness ==
    /\ last.op = "callback"
    /\ last.path = "raised"
    /\ last.counted = 1
    /\ player.current_chunk = None
    /\ outdata = Zeros(last.frames * Val(player.format).frame_size)

\* C33: start() is called (stream_started turns true) only by a submit, on
\* a stream that was not active before, and only when that submit put a
\* chunk in the queue; a submit that returns with the queue non-empty, a
\* stream configured and stream_started false before it, starts the stream;
\* no other step makes a stream active; and the submit to a player newly
\* constructed for a changed format starts its stream exactly if it leaves
\* the queue non-empty.
C33_StreamStartsOnce ==
    [][LET started == player'.stream_started /\ ~player.stream_started
           before  == IF last'.cleared \/ last'.reanchored THEN 0 ELSE Len(player.queue)
       IN  IF last'.op = "format_change" /\ count'.submit = count.submit + 1
           THEN /\ player'.stream_started = (Len(player'.queue) > 0)
                /\ Val(player'.stream).active = player'.stream_started
           ELSE /\ started
                   => /\ last'.op = "submit"
                      /\ Len(player'.queue) > before
                      /\ player.stream # None
                      /\ ~Val(player.stream).active
                      /\ player'.stream # None
                      /\ Val(player'.stream).active
                /\ /\ last'.op = "submit"
                   /\ count'.submit = count.submit + 1
                   /\ ~player.stream_started
                   /\ player.stream # None
                   /\ Len(player'.queue) > 0
                   => started
                /\ /\ player.stream # None
                   /\ ~Val(player.stream).active
                   /\ player'.stream # None
                   /\ Val(player'.stream).active
                   => started]_vars

\* C34: a submit called while the state is Initializing or WaitingForStart,
\* or while the playback position or the source read cursor is 0, measures
\* no sync error, leaves both cadences, both countdowns and the smoothed
\* sync error as they were, and does not re-anchor.
C34_CorrectionOnlyWhilePlaying ==
    [][/\ last'.op = "submit"
       /\ count'.submit = count.submit + 1
       /\ \/ player.playback_state \in {INITIALIZING, WAITING_FOR_START}
          \/ player.last_known_playback_position_us = 0
          \/ player.server_ts_cursor_us = 0
       => /\ ~last'.measured
          /\ ~last'.reanchored
          /\ player'.insert_every_n_frames = player.insert_every_n_frames
          /\ player'.drop_every_n_frames = player.drop_every_n_frames
          /\ player'.frames_until_next_insert = player.frames_until_next_insert
          /\ player'.frames_until_next_drop = player.frames_until_next_drop
          /\ player'.sync_error_filtered_us = player.sync_error_filtered_us]_vars

C34_Witness ==
    /\ last.op = "submit"
    /\ last.accepted
    /\ ~last.measured
    /\ count.callback > 0
    /\ player.playback_state = WAITING_FOR_START
    /\ player.last_known_playback_position_us > 0
    /\ player.server_ts_cursor_us > 0

\* C35 (as stated): a submit of whole frames made in WaitingForStart
\* replaces the scheduled loop start by
\* compute_client_time(first_server_timestamp), and re-derives the
\* scheduled DAC start, exactly if the two differ by more than 5 ms, and
\* otherwise leaves both as they were; a submit made in Playing leaves both
\* as they were.
C35_StartTimeReevaluation ==
    [][/\ last'.op = "submit"
       /\ count'.submit = count.submit + 1
       /\ player.playback_state \in {WAITING_FOR_START, PLAYING}
       /\ last'.payload.len % Val(player.format).frame_size = 0
       => LET updated == compute_client_time(Val(player.first_server_timestamp_us), offset)
              p1      == [player EXCEPT !.scheduled_start_loop_time_us = Some(updated)]
              est_dac == estimate_dac_time_for_server_timestamp(
                             p1, Val(player.first_server_timestamp_us), offset)
          IN  IF /\ player.playback_state = WAITING_FOR_START
                 /\ Abs(updated - Val(player.scheduled_start_loop_time_us))
                        > START_TIME_UPDATE_THRESHOLD_US
              THEN /\ player'.scheduled_start_loop_time_us = Some(updated)
                   /\ player'.scheduled_start_dac_time_us
                          = IF est_dac # 0 THEN Some(est_dac) ELSE None
              ELSE /\ player'.scheduled_start_loop_time_us
                          = player.scheduled_start_loop_time_us
                   /\ player'.scheduled_start_dac_time_us
                          = player.scheduled_start_dac_time_us]_vars

\* C35 (amended): the same for every submit that neither runs a deferred
\* clear nor re-anchors and that finds a start scheduled; a deferred clear
\* and a re-anchor discard the schedule, and a submit that finds none
\* scheduled schedules the start from its own timestamp.
C35_StartTimeReevaluationUnlessCleared ==
    [][/\ last'.op = "submit"
       /\ count'.submit = count.submit + 1
       /\ player.playback_state \in {WAITING_FOR_START, PLAYING}
       /\ last'.payload.len % Val(player.format).frame_size = 0
       => IF \/ last'.cleared
             \/ last'.reanchored
             \/ player.scheduled_start_loop_time_us = None
          THEN \/ player'.scheduled_start_loop_time_us = None
               \/ player'.first_server_timestamp_us = Some(last'.ts)
          ELSE LET updated == compute_client_time(Val(player.first_server_timestamp_us),
                                                  offset)
                   p1      == [player EXCEPT !.scheduled_start_loop_time_us = Some(updated)]
                   est_dac == estimate_dac_time_for_server_timestamp(
                                  p1, Val(player.first_server_timestamp_us), offset)
               IN  IF /\ player.playback_state = WAITING_FOR_START
                      /\ Abs(updated - Val(player.scheduled_start_loop_time_us))
                             > START_TIME_UPDATE_THRESHOLD_US
                   THEN /\ player'.scheduled_start_loop_time_us = Some(updated)
                        /\ player'.scheduled_start_dac_time_us
                               = IF est_dac # 0 THEN Some(est_dac) ELSE None
                   ELSE /\ player'.scheduled_start_loop_time_us
                               = player.scheduled_start_loop_time_us
                        /\ player'.scheduled_start_dac_time_us
                               = player.scheduled_start_dac_time_us]_vars

C35_Witness ==
    /\ last.op = "submit"
    /\ ~last.cleared
    /\ ~last.reanchored
    /\ count.submit > 1
    /\ count.callback > 0
    /\ player.playback_state = WAITING_FOR_START
    /\ offset = 5005001
    /\ player.scheduled_start_loop_time_us
           = Some(compute_client_time(Val(player.first_server_timestamp_us), offset))
    /\ player.scheduled_start_dac_time_us # None

\* C36: whenever the queue is non-empty the state is WaitingForStart or
\* Playing, and a callback that takes bytes from the queue emits in state
\* Playing.
C36_NoUngatedPlayback ==
    [][/\ player'.queue # <<>>
          => player'.playback_state \in {WAITING_FOR_START, PLAYING}
       /\ /\ last'.op = "callback"
          /\ count'.callback = count.callback + 1
          /\ QueuedBytes(player') < QueuedBytes(player)
          => last'.at.state = PLAYING]_vars

\* C37: whenever no callback is in progress and the read cursor is not 0,
\* the cursor equals the source timestamp of the next frame to be consumed
\* (the current chunk's timestamp plus the duration of the frames read of
\* it, or the timestamp of the chunk at the head of the queue), within one
\* microsecond of rounding per submitted chunk; and a callback that found
\* the cursor at 0 and loaded a chunk leaves the cursor at a value not below
\* that chunk's timestamp.
C37_CursorAfterClear ==
    [][/\ player'.format # None
       /\ threads'.audio = None
       => LET fmt  == Val(player'.format)
              next == IF player'.current_chunk # None
                      THEN Val(player'.current_chunk).server_timestamp_us
                             + MulDivFloor(player'.current_chunk_offset \div fmt.frame_size,
                                           MICROSECONDS_PER_SECOND, fmt.sample_rate)
                      ELSE player'.queue[1].server_timestamp_us
          IN  /\ /\ player'.server_ts_cursor_us # 0
                 /\ player'.current_chunk # None \/ player'.queue # <<>>
                 => Abs(player'.server_ts_cursor_us - next) <= count'.submit + 1
              /\ /\ last'.op = "callback"
                 /\ last'.at.cursor_us = 0
                 /\ last'.at.loading # None
                 /\ QueuedBytes(player') < last'.at.queued
                 => player'.server_ts_cursor_us
                        >= Val(last'.at.loading).server_timestamp_us]_vars

\* C38: whenever neither thread is inside a call, queued_duration_us (the
\* buffered_audio_us of get_timing_metrics) is the sum of the durations of
\* the chunks in the queue and of the current chunk, it is not negative, and
\* it is 0 when no chunk is queued or current.
C38_BufferedDuration ==
    /\ player.format # None
    /\ threads.audio = None
    /\ threads.event = None
    => LET fmt == Val(player.format)
           duration(chunk) ==
               MulDivFloor(chunk.audio_data.len \div fmt.frame_size,
                           MICROSECONDS_PER_SECOND, fmt.sample_rate)
           SumDuration[i \in 0..Len(player.queue)] ==
               IF i = 0 THEN 0 ELSE SumDuration[i - 1] + duration(player.queue[i])
       IN  /\ player.queued_duration_us >= 0
           /\ player.queued_duration_us
                  = SumDuration[Len(player.queue)]
                      + (IF player.current_chunk = None THEN 0
                         ELSE duration(Val(player.current_chunk)))

\* C39: a submit made after stop() puts nothing in the queue and leaves the
\* playback state as it was.
C39_NoSubmitAfterStop ==
    [][/\ count'.submit = count.submit + 1
       /\ last'.op = "submit"
       /\ player.closed
       => /\ player'.queue = player.queue
          /\ player'.playback_state = player.playback_state]_vars

\* C40: every chunk a submit puts in the queue, the silence for a gap
\* included, holds at least one whole frame, and a submit that moves
\* expected_next_timestamp forward has enqueued at least one frame and moves
\* it by no less than the duration of the frames it enqueued.
C40_NoEmptyChunks ==
    [][/\ count'.submit = count.submit + 1
       /\ last'.op = "submit"
       /\ ~last'.cleared
       /\ ~last'.reanchored
       /\ Len(player'.queue) >= Len(player.queue)
       => LET fmt    == Val(player.format)
              added  == SubSeq(player'.queue, Len(player.queue) + 1, Len(player'.queue))
              Frames[i \in 0..Len(added)] ==
                  IF i = 0 THEN 0
                  ELSE Frames[i - 1] + added[i].audio_data.len \div fmt.frame_size
          IN  /\ \A i \in 1..Len(added) : added[i].audio_data.len >= fmt.frame_size
              /\ /\ player.expected_next_timestamp # None
                 /\ player'.expected_next_timestamp # None
                 /\ Val(player'.expected_next_timestamp)
                        > Val(player.expected_next_timestamp)
                 => /\ Frames[Len(added)] > 0
                    /\ Val(player'.expected_next_timestamp)
                           - Val(player.expected_next_timestamp)
                           >= duration_us(fmt, Frames[Len(added)])]_vars

====
